---- MODULE Spec2Model ----
(***************************************************************************)
(* dbvault: the backup pipeline of the four manager variants               *)
(* (SQLDatabaseBackupManager, MongoDatabaseBackupManager,                  *)
(* SQLiteDatabaseBackupManager, IBMDB2DatabaseBackupManager).              *)
(*                                                                         *)
(* One manager instance is driven by a caller through connect(), backup()  *)
(* and perform_backup_pipeline().  The file system, the connection         *)
(* handles and the position inside the running call are the state; the     *)
(* external tools (mysqldump, mongodump, db2, the cloud SDKs) answer       *)
(* nondeterministically.                                                   *)
(***************************************************************************)
EXTENDS Integers, Sequences, FiniteSets, TLC

VARIABLES
    variant,    \* the manager class of the instance
    args,       \* the arguments the caller passes to every call
    conn,       \* self.connection / self.client: NoHandle or a handle id
    stored,     \* self.host, self.user, self.password, self.database are set
    handles,    \* every connection ever opened: [open, closes]
    fs,         \* the files on disk: name -> "empty" (zero length) or "data"
    imgs,       \* number of Db2 backup images written so far (image names are timestamped)
    pc,         \* position inside the running call
    call,       \* the running (or last) top-level call
    ncalls,     \* number of top-level calls made
    piped,      \* perform_backup_pipeline has been called
    attempt,    \* tenacity's attempt_number of perform_backup_pipeline
    delays,     \* the sleeps tenacity made between the attempts of this call
    stages,     \* the stages backup() has started, in order
    path,       \* backup(): db_path / compressed_path
    err,        \* the exception that is propagating, or NoErr
    uploadTry,  \* tenacity's attempt_number of the running upload_to_*
    uploadDelays, \* the sleeps tenacity made between the attempts of that upload
    dumps,      \* number of times the dump stage has run in this top-level call
    uploadOnly, \* every failed attempt of this call so far failed in the upload stage
    clean,      \* no file was on disk when this top-level call started
    result,     \* what the last top-level call gave its caller
    connects,   \* number of times connect() has run in this top-level call
    uploads,    \* number of attempts of upload_to_* made in this top-level call
    \* the cloud upload dispatcher, called on its own or through a manager
    kwargs,     \* the upload descriptor: cloud_provider and the fields that are set
    via,        \* who routes: "dispatch" or the variant whose _upload_to_cloud runs
    dpc,        \* position inside the routing call
    invoked,    \* the upload operations that have been invoked, in order
    dout,       \* how the routing call ended
    \* the cryptographic helper on a disk of its own
    given,      \* the caller's file path, file content and the two keys
    disk,       \* path -> content
    cpc,        \* "start", "encrypted" or "decrypted"
    encOut,     \* what encrypt_file returned
    decOut,     \* what decrypt_file returned or raised
    \* the two entry points of the pipeline
    params,     \* the arguments the caller passes
    apc,        \* "idle" or "called"
    bound,      \* the function that runs, its thread and its bound parameters
    \* one operation that runs engine tools, called once on a manager
    man,        \* the manager: variant, self.connection / self.client, credentials stored
    op,         \* the operation called: "connect", "dump", "validate" or "release"
    cfields,    \* the arguments of connect() that are not empty
    tfile,      \* the file validate() is given, or the database file that the
                \* file-based connect() is given: "missing", "empty" or "data"
    tpc,        \* position inside the operation
    ns,         \* the throwaway namespace of validate(): "absent" or "present"
    runs,       \* the engine tools and commands run so far: [tool, rc, raised]
    tout,       \* how the operation ends (pending while a finally block runs)
    \* two backup() runs of two managers of one variant, on one file system
    rvariant,   \* the variant of both managers
    rdest,      \* run -> its file_path argument ("" for the default scratch path)
    rpc,        \* run -> position inside backup()
    rpath,      \* run -> db_path / compressed_path
    rfs,        \* the shared disk: path -> the run whose dump the file holds
    rout,       \* run -> how its backup() ended
    \* upload_to_minio, called once on an object store other clients use too
    bucket,     \* the bucket in the store: "absent" or "present"
    mpc,        \* position inside upload_to_minio
    mtry,       \* tenacity's attempt_number of upload_to_minio
    mseen,      \* the bucket has been there at some state of this attempt
    mlog,       \* the client calls made so far: [call, try, answer]
    mout        \* how upload_to_minio ended

\* the manager, its files and its running call
mainVars == <<variant, args, conn, stored, handles, fs, imgs, pc, call, ncalls, piped,
              attempt, delays, stages, path, err, uploadTry, uploadDelays, dumps,
              uploadOnly, clean, result, connects, uploads>>

dispatchVars == <<kwargs, via, dpc, invoked, dout>>

cryptoVars == <<given, disk, cpc, encOut, decOut>>

asyncVars == <<params, apc, bound>>

toolVars == <<man, op, cfields, tfile, tpc, ns, runs, tout>>

raceVars == <<rvariant, rdest, rpc, rpath, rfs, rout>>

minioVars == <<bucket, mpc, mtry, mseen, mlog, mout>>

\* what the manager's own calls never touch
side == <<dispatchVars, cryptoVars, asyncVars, toolVars, raceVars, minioVars>>

vars == <<mainVars, side>>

-----------------------------------------------------------------------------
(* Bounds and program constants *)

MaxCalls == 2

MaxAttempts == 3

UploadAttempts == 3

\* longest file path of the cryptographic helper's runs, in pieces
MaxPathLen == 2

\* highest return code an external tool answers with
MaxExit == 2

\* longest run of failed attempts the backoff schedule is computed for
BackoffSteps == 6

WaitMultiplier == 2

WaitMin == 2

WaitMax == 10

-----------------------------------------------------------------------------
(* Values *)

Variants == {"sql", "mongo", "sqlite", "db2"}

\* the cloud_provider tags the caller passes: none, one tag every variant
\* routes (in upper case: the tag is lower-cased before it is routed), one tag
\* only dispatch_cloud_upload routes, one tag nothing routes
Providers == {"", "S3", "gcs", "ftp"}

NoHandle == 0

NoErr == [kind |-> "none", stage |-> "none", inner |-> "none"]

Exc(k, s) == [kind |-> k, stage |-> s, inner |-> "none"]

NoPath == [dir |-> "none", img |-> 0, sfx |-> <<>>]

NoResult == [status |-> "none", path |-> NoPath, err |-> NoErr]

Returned(p) == [status |-> "ok", path |-> p, err |-> NoErr]

Raised(e) == [status |-> "error", path |-> NoPath, err |-> e]

\* str.lower() on the provider tag
Lower(p) == IF p = "S3" THEN "s3" ELSE p

\* f"{file_path}.gz", f"{file_path}.enc"
WithSuffix(p, s) == [p EXCEPT !.sfx = Append(p.sfx, s)]

\* the manager's own scratch path: ./backup_temp.sql, ./backup_temp.archive,
\* ./backup_temp.db, and the directory ./backup_temp_db2
TempPath == [dir |-> "tmp", img |-> 0, sfx |-> <<>>]

\* os.path.join(file_path, "backup.sql") if file_path else the scratch path
BackupDir == IF args.file_path # "" THEN args.file_path ELSE "tmp"

BackupPath == [dir |-> BackupDir, img |-> 0, sfx |-> <<>>]

EmptyFS == [n \in {} |-> "data"]

Remove(f, names) == [n \in (DOMAIN f) \ names |-> f[n]]

Put(f, n, c) == [m \in (DOMAIN f) \cup {n} |-> IF m = n THEN c ELSE f[m]]

-----------------------------------------------------------------------------
(* Initial state: a fresh manager, an empty scratch location and destination *)

ArgSets ==
    { a \in [fields : BOOLEAN, file_path : {"", "dst"}, link : BOOLEAN,
             key : BOOLEAN, provider : Providers, complete : BOOLEAN] :
        /\ (a.provider \in {"", "ftp"} => a.complete)
        /\ (a.link => a.file_path = "" /\ a.provider = "")
        /\ (~a.fields => a.file_path = "dst" /\ ~a.link /\ ~a.key /\ a.provider = "") }

\* the upload descriptor fields the routing code reads
Fields ==
    {"s3_bucket", "s3_expected_owner", "azure_conn_str", "azure_container",
     "gcs_bucket", "minio_endpoint", "minio_access_key", "minio_secret_key",
     "minio_bucket"}

\* cloud_provider values a caller may pass: the four providers, one of them in
\* upper case, a tag no code knows and the default of kwargs.get
Tags == {"s3", "S3", "azure", "gcs", "minio", "ftp", ""}

DNoErr == [kind |-> "none", about |-> "none", names |-> "none"]

DExc(k, a, n) == [kind |-> k, about |-> a, names |-> n]

NoOutcome == [status |-> "none", err |-> DNoErr]

DReturned == [status |-> "ok", err |-> DNoErr]

DRaised(e) == [status |-> "error", err |-> e]

\* a manager as __init__ leaves it, with no call made
Fresh ==
    /\ conn = NoHandle
    /\ stored = FALSE
    /\ handles = <<>>
    /\ fs = EmptyFS
    /\ imgs = 0
    /\ pc = "idle"
    /\ call = "none"
    /\ ncalls = 0
    /\ piped = FALSE
    /\ attempt = 0
    /\ delays = <<>>
    /\ stages = <<>>
    /\ path = NoPath
    /\ err = NoErr
    /\ uploadTry = 0
    /\ uploadDelays = <<>>
    /\ dumps = 0
    /\ uploadOnly = TRUE
    /\ clean = TRUE
    /\ result = NoResult
    /\ connects = 0
    /\ uploads = 0

\* no routing call is made
DispatchIdle ==
    /\ kwargs = [cloud_provider |-> "", present |-> {}]
    /\ via = "dispatch"
    /\ dpc = "idle"
    /\ invoked = <<>>
    /\ dout = NoOutcome

CNone == [status |-> "none", path |-> <<>>, err |-> "none"]

CReturned(p) == [status |-> "ok", path |-> p, err |-> "none"]

CRaised(k) == [status |-> "error", path |-> <<>>, err |-> k]

\* the cryptographic helper is not called
CryptoIdle ==
    /\ given = [p |-> <<>>, f |-> "none", ek |-> "none", dk |-> "none"]
    /\ disk = <<>>
    /\ cpc = "idle"
    /\ encOut = CNone
    /\ decOut = CNone

\* neither entry point of the pipeline is called
AsyncIdle ==
    /\ params = <<>>
    /\ apc = "none"
    /\ bound = <<>>

TNone == [status |-> "none", kind |-> "none", about |-> "none"]

TReturned == [status |-> "ok", kind |-> "none", about |-> "none"]

TRaised(k, a) == [status |-> "error", kind |-> k, about |-> a]

\* no tool-running operation is called on its own
ToolIdle ==
    /\ man = [variant |-> "sql", client |-> "none", stored |-> FALSE]
    /\ op = "none"
    /\ cfields = {}
    /\ tfile = "missing"
    /\ tpc = "idle"
    /\ ns = "absent"
    /\ runs = <<>>
    /\ tout = TNone

Runs == {1, 2}

\* no second manager runs beside this one
RaceIdle ==
    /\ rvariant = "sql"
    /\ rdest = [r \in Runs |-> ""]
    /\ rpc = [r \in Runs |-> "idle"]
    /\ rpath = [r \in Runs |-> NoPath]
    /\ rfs = EmptyFS
    /\ rout = [r \in Runs |-> NoResult]

\* upload_to_minio is not called on its own
MinioIdle ==
    /\ bucket = "absent"
    /\ mpc = "idle"
    /\ mtry = 0
    /\ mseen = FALSE
    /\ mlog = <<>>
    /\ mout = NoOutcome

Init ==
    /\ variant \in Variants
    /\ args \in ArgSets
    /\ Fresh
    /\ DispatchIdle
    /\ CryptoIdle
    /\ AsyncIdle
    /\ ToolIdle
    /\ RaceIdle
    /\ MinioIdle

\* the manager stays untouched while a helper is exercised on its own
MainIdle ==
    /\ variant = "sql"
    /\ args = [fields |-> TRUE, file_path |-> "dst", link |-> FALSE, key |-> FALSE,
               provider |-> "", complete |-> TRUE]
    /\ Fresh

-----------------------------------------------------------------------------
(* The caller: at most MaxCalls calls, one at a time *)

CanCall == pc \in {"idle", "done"} /\ ncalls < MaxCalls

StartCall(kind, at, n) ==
    /\ CanCall
    /\ call' = kind
    /\ pc' = at
    /\ ncalls' = ncalls + 1
    /\ piped' = (piped \/ kind = "pipeline")
    /\ attempt' = n
    /\ delays' = <<>>
    /\ stages' = <<>>
    /\ path' = NoPath
    /\ err' = NoErr
    /\ uploadTry' = 0
    /\ uploadDelays' = <<>>
    /\ dumps' = 0
    /\ uploadOnly' = TRUE
    /\ clean' = (fs = EmptyFS)
    /\ result' = NoResult
    /\ connects' = 0
    /\ uploads' = 0
    /\ UNCHANGED <<side, variant, args, conn, stored, handles, fs, imgs>>

\* manager.connect(host, user, password, database_name)
CallConnect == StartCall("connect", "connect", 0)

\* manager.backup(file_path, storage_account_link, **kwargs)
CallBackup == StartCall("backup", "b_entry", 0)

\* manager.perform_backup_pipeline(...): tenacity starts attempt 1.  The caller
\* makes this call at most once, before or after its direct calls.
CallPipeline == ~piped /\ StartCall("pipeline", "connect", 1)

-----------------------------------------------------------------------------
(* connect() *)

\* What the engine can answer to connect(); "missing" is the field check.
\* "unreachable" is the document-store case where the client object is
\* built and assigned before server_info() fails.
ConnectOutcomes ==
    IF ~args.fields THEN {"missing"}
    ELSE IF variant = "mongo" THEN {"ok", "refused", "unreachable"}
    ELSE {"ok", "refused"}

ConnectError(out) ==
    IF out = "missing" THEN Exc("ValueError", "connect")
    ELSE Exc("BackupError", "connect")

\* where an exception raised by connect() or by backup() goes: to the caller
\* of a direct call, to the finally block of perform_backup_pipeline
Propagate(e) ==
    IF call = "pipeline"
    THEN /\ pc' = "p_finally"
         /\ err' = e
         /\ result' = result
    ELSE /\ pc' = "done"
         /\ err' = NoErr
         /\ result' = Raised(e)

Connect ==
    /\ pc = "connect"
    /\ connects' = connects + 1
    /\ \E out \in ConnectOutcomes :
         /\ IF out \in {"ok", "unreachable"}
            THEN /\ handles' = Append(handles, [open |-> TRUE, closes |-> 0])
                 /\ conn' = Len(handles) + 1
            ELSE UNCHANGED <<handles, conn>>
         /\ stored' = (stored \/ out = "ok")
         /\ IF out = "ok"
            THEN IF call = "pipeline"
                 THEN pc' = "b_entry" /\ UNCHANGED <<err, result>>
                 ELSE pc' = "done" /\ result' = Returned(NoPath) /\ UNCHANGED err
            ELSE Propagate(ConnectError(out))
    /\ UNCHANGED <<side, uploads, uploadDelays, dumps, uploadOnly, variant, args, fs, imgs,
                   call, ncalls, piped, attempt, delays,
                   stages, path, uploadTry, clean>>

-----------------------------------------------------------------------------
(* backup(): the checks before the try block *)

\* mutant of NoDestination: the test of cloud_provider is inverted
NoDestinationInverted ==
    args.file_path = "" /\ ~args.link /\ args.provider # ""

\* not file_path and not storage_account_link and not kwargs.get("cloud_provider")
NoDestination ==
    args.file_path = "" /\ ~args.link /\ args.provider = ""

BackupEntry ==
    /\ pc = "b_entry"
    /\ IF conn = NoHandle
       THEN /\ Propagate(Exc("BackupError", "not_connected"))
            /\ UNCHANGED <<path, stages>>
       ELSE IF NoDestination
       THEN /\ Propagate(Exc("ValueError", "no_destination"))
            /\ UNCHANGED <<path, stages>>
       ELSE /\ pc' = "dump"
            /\ path' = BackupPath
            /\ stages' = <<>>
            /\ UNCHANGED <<err, result>>
    /\ UNCHANGED <<side, connects, uploads, uploadDelays, dumps, uploadOnly, variant, args, conn,
                   stored, handles, fs, imgs, call, ncalls, piped,
                   attempt, delays, uploadTry, clean>>

-----------------------------------------------------------------------------
(* backup(): the stages inside the try block *)

Truthy(p) == p # ""

\* mutant of StageAfter: the dump is compressed before it is validated
StageAfterSwapped(s) ==
    CASE s = "dump" -> "compress"
      [] s = "compress" -> "validate"
      [] s = "validate" ->
            IF args.key THEN "encrypt"
            ELSE IF Truthy(args.provider) THEN "upload" ELSE "b_finally"
      [] s = "encrypt" -> IF Truthy(args.provider) THEN "upload" ELSE "b_finally"
      [] OTHER -> "b_finally"

\* mutant of StageAfter: the compressed file is uploaded before it is encrypted
StageAfterUploadFirst(s) ==
    CASE s = "dump" -> "validate"
      [] s = "validate" -> "compress"
      [] s = "compress" ->
            IF Truthy(args.provider) THEN "upload"
            ELSE IF args.key THEN "encrypt" ELSE "b_finally"
      [] s = "upload" -> IF args.key THEN "encrypt" ELSE "b_finally"
      [] OTHER -> "b_finally"

\* the order of the statements of the try block: which stage follows `s`
StageAfter(s) ==
    CASE s = "dump" -> "validate"
      [] s = "validate" -> "compress"
      [] s = "compress" ->
            IF args.key THEN "encrypt"
            ELSE IF Truthy(args.provider) THEN "upload" ELSE "b_finally"
      [] s = "encrypt" -> IF Truthy(args.provider) THEN "upload" ELSE "b_finally"
      [] OTHER -> "b_finally"

\* mutant of RaiseInBackup: the exception is swallowed and backup() goes on to
\* its return statement
RaiseInBackupSwallowed(e) ==
    /\ pc' = "b_finally"
    /\ err' = NoErr

\* an exception inside the try block of backup(): the finally block runs next
RaiseInBackup(e) ==
    /\ pc' = "b_finally"
    /\ err' = e

\* order of two file names as strings: "X" < "X.gz", "X.gz.enc" < "X.gz.gz"
SfxLE(s, t) ==
    LET n == IF Len(s) < Len(t) THEN Len(s) ELSE Len(t)
        D == {i \in 1..n : s[i] # t[i]}
    IN  IF D = {} THEN Len(s) <= Len(t)
        ELSE LET i == CHOOSE i \in D : \A j \in D : i <= j
             IN  s[i] = "enc"

NameLE(a, b) == a.img < b.img \/ (a.img = b.img /\ SfxLE(a.sfx, b.sfx))

\* _run_db2_backup: sorted(os.listdir(backup_dir), reverse=True)[0]
DirFiles(f, d) == {n \in DOMAIN f : n.dir = d}

DB2Pick(f, d) == CHOOSE n \in DirFiles(f, d) : \A m \in DirFiles(f, d) : NameLE(m, n)

\* What the dump tool can do: write a dump ("data": a file that is not empty),
\* succeed with a zero-length file ("empty"), fail leaving a partly written
\* file, fail leaving nothing; db2 BACKUP can also end with rc < 2 and no new
\* image.
DumpOutcomes ==
    CASE variant = "sqlite" ->
            IF handles[conn].open THEN {"data", "empty", "fail_file"} ELSE {"fail_file"}
      [] variant = "sql" -> {"data", "empty", "fail_file"}
      [] variant = "mongo" -> {"data", "empty", "fail_file", "fail_nofile"}
      [] OTHER -> {"data", "empty", "noimage", "fail_nofile"}

Dump ==
    /\ pc = "dump"
    /\ stages' = Append(stages, "dump")
    /\ dumps' = dumps + 1
    /\ \E out \in DumpOutcomes :
         LET target == IF variant = "db2"
                       THEN [dir |-> path.dir, img |-> imgs + 1, sfx |-> <<>>]
                       ELSE path
         IN  CASE out \in {"data", "empty"} ->
                    /\ fs' = Put(fs, target, out)
                    /\ imgs' = IF variant = "db2" THEN imgs + 1 ELSE imgs
                    /\ path' = IF variant = "db2" THEN DB2Pick(fs', path.dir) ELSE path
                    /\ pc' = StageAfter("dump")
                    /\ UNCHANGED err
               [] out = "noimage" ->
                    /\ UNCHANGED <<fs, imgs>>
                    /\ IF DirFiles(fs, path.dir) = {}
                       THEN RaiseInBackup(Exc("BackupError", "dump")) /\ UNCHANGED path
                       ELSE /\ path' = DB2Pick(fs, path.dir)
                            /\ pc' = StageAfter("dump")
                            /\ UNCHANGED err
               [] out = "fail_file" ->
                    /\ fs' = Put(fs, target, "data")
                    /\ RaiseInBackup(Exc("BackupError", "dump"))
                    /\ UNCHANGED <<imgs, path>>
               [] OTHER ->
                    /\ RaiseInBackup(Exc("BackupError", "dump"))
                    /\ UNCHANGED <<fs, imgs, path>>
    /\ UNCHANGED <<side, connects, uploads, uploadDelays, uploadOnly, variant, args, conn, stored,
                   handles, call, ncalls, piped, attempt,
                   delays, uploadTry, clean, result>>

\* What the integrity check can answer once the file is there and not empty.
\* The document-store variant drops the throwaway database in a finally
\* block through the client, and that command can itself raise.
ValidateOutcomes ==
    IF variant = "mongo" THEN {"ok", "corrupt", "ok_dropfail", "corrupt_dropfail"}
    ELSE {"ok", "corrupt"}

Validate ==
    /\ pc = "validate"
    /\ stages' = Append(stages, "validate")
    /\ IF path \notin DOMAIN fs \/ fs[path] = "empty"
       THEN RaiseInBackup(Exc("BackupError", "validate"))
       ELSE \E out \in ValidateOutcomes :
              CASE out = "ok" -> pc' = StageAfter("validate") /\ UNCHANGED err
                [] out = "corrupt" -> RaiseInBackup(Exc("BackupError", "validate"))
                [] OTHER -> RaiseInBackup(Exc("EngineError", "validate"))
    /\ UNCHANGED <<side, connects, uploads, uploadDelays, dumps, uploadOnly, variant, args, conn,
                   stored, handles, fs, imgs, call, ncalls, piped,
                   attempt, delays, path, uploadTry, clean, result>>

Compress ==
    /\ pc = "compress"
    /\ stages' = Append(stages, "compress")
    /\ LET gz == WithSuffix(path, "gz")
       IN  IF path \notin DOMAIN fs
           THEN /\ RaiseInBackup(Exc("FileNotFoundError", "compress"))
                /\ UNCHANGED <<fs, path>>
           ELSE \E out \in {"ok", "fail"} :
                  IF out = "ok"
                  THEN /\ fs' = Remove(Put(fs, gz, "data"), {path})
                       /\ path' = gz
                       /\ pc' = StageAfter("compress")
                       /\ UNCHANGED err
                  ELSE /\ fs' = Put(fs, gz, "data")
                       /\ RaiseInBackup(Exc("BackupError", "compress"))
                       /\ UNCHANGED path
    /\ UNCHANGED <<side, connects, uploads, uploadDelays, dumps, uploadOnly, variant, args, conn,
                   stored, handles, imgs, call, ncalls, piped,
                   attempt, delays, uploadTry, clean, result>>

\* encrypt_file: the key is rejected or the source cannot be read ("fail_early"),
\* the write of the .enc file fails ("fail_write"), or the .enc file is written
\* and the source removed
Encrypt ==
    /\ pc = "encrypt"
    /\ stages' = Append(stages, "encrypt")
    /\ LET enc == WithSuffix(path, "enc")
       IN  \E out \in {"ok", "fail_early", "fail_write"} :
             CASE out = "ok" ->
                    /\ fs' = Remove(Put(fs, enc, "data"), {path})
                    /\ path' = enc
                    /\ pc' = StageAfter("encrypt")
                    /\ UNCHANGED err
               [] out = "fail_write" ->
                    /\ fs' = Put(fs, enc, "data")
                    /\ RaiseInBackup(Exc("BackupError", "encrypt"))
                    /\ UNCHANGED path
               [] OTHER ->
                    /\ RaiseInBackup(Exc("BackupError", "encrypt"))
                    /\ UNCHANGED <<fs, path>>
    /\ UNCHANGED <<side, connects, uploads, uploadDelays, dumps, uploadOnly, variant, args, conn,
                   stored, handles, imgs, call, ncalls, piped,
                   attempt, delays, uploadTry, clean, result>>

-----------------------------------------------------------------------------
(* backup(): the upload stage *)

\* the provider tags the variant's _upload_to_cloud routes: the document-store
\* variant calls dispatch_cloud_upload, the others have their own s3/azure copy
Supported ==
    IF variant = "mongo" THEN {"s3", "azure", "gcs", "minio"} ELSE {"s3", "azure"}

\* _upload_to_cloud up to the call of upload_to_*: the tag is routed and the
\* descriptor checked, a ValueError otherwise
Upload ==
    /\ pc = "upload"
    /\ stages' = Append(stages, "upload")
    /\ IF Lower(args.provider) \notin Supported
       THEN RaiseInBackup(Exc("ValueError", "upload"))
            /\ UNCHANGED <<uploadTry, uploadDelays>>
       ELSE IF ~args.complete
       THEN RaiseInBackup(Exc("ValueError", "upload"))
            /\ UNCHANGED <<uploadTry, uploadDelays>>
       ELSE /\ pc' = "upload_try"
            /\ uploadTry' = 1
            /\ uploadDelays' = <<>>
            /\ UNCHANGED err
    /\ UNCHANGED <<side, connects, uploads, dumps, uploadOnly, variant, args, conn, stored, handles, fs,
                   imgs, call, ncalls, piped,
                   attempt, delays, path, clean, result>>

RECURSIVE Pow2(_)
Pow2(n) == IF n <= 0 THEN 1 ELSE 2 * Pow2(n - 1)

\* mutant of Wait: the exponent is the attempt number itself
WaitFromAttemptNumber(n) ==
    LET w == WaitMultiplier * Pow2(n)
    IN  IF w < WaitMin THEN WaitMin ELSE IF w > WaitMax THEN WaitMax ELSE w

\* wait_exponential(multiplier=2, min=2, max=10) after attempt n
Wait(n) ==
    LET w == WaitMultiplier * Pow2(n - 1)
    IN  IF w < WaitMin THEN WaitMin ELSE IF w > WaitMax THEN WaitMax ELSE w

\* mutant of UploadStop: the upload gives up after its second attempt
UploadStopEarly(n) == n >= UploadAttempts - 1

\* mutant of UploadStop: the upload gives up one attempt late
UploadStopLate(n) == n > UploadAttempts

\* stop_after_attempt(3) of upload_to_s3 / _azure / _gcs / _minio
UploadStop(n) == n >= UploadAttempts

\* one attempt of upload_to_* under its own @retry: tenacity raises
\* RetryError once the attempt budget is used up
UploadTry ==
    /\ pc = "upload_try"
    /\ uploads' = uploads + 1
    /\ \E ok \in BOOLEAN :
         IF ok
         THEN /\ pc' = StageAfter("upload")
              /\ UNCHANGED <<err, uploadTry, uploadDelays>>
         ELSE IF UploadStop(uploadTry)
         THEN /\ RaiseInBackup([kind |-> "RetryError", stage |-> "upload",
                                inner |-> "EngineError"])
              /\ UNCHANGED <<uploadTry, uploadDelays>>
         ELSE /\ uploadTry' = uploadTry + 1
              /\ uploadDelays' = Append(uploadDelays, Wait(uploadTry))
              /\ UNCHANGED <<pc, err>>
    /\ UNCHANGED <<side, connects, dumps, uploadOnly, variant, args, conn, stored, handles, fs,
                   imgs, call, ncalls, piped,
                   attempt, delays, stages, path, clean, result>>

-----------------------------------------------------------------------------
(* backup(): the finally block *)

\* os.remove(scratch path) if it exists; shutil.rmtree(scratch directory)
\* for the enterprise variant
ScratchCleanup(f) ==
    IF variant = "db2" THEN Remove(f, DirFiles(f, "tmp")) ELSE Remove(f, {TempPath})

BackupFinally ==
    /\ pc = "b_finally"
    /\ fs' = ScratchCleanup(fs)
    /\ IF call = "pipeline"
       THEN /\ pc' = "p_finally"
            /\ UNCHANGED <<err, result>>
       ELSE /\ pc' = "done"
            /\ result' = IF err = NoErr THEN Returned(path) ELSE Raised(err)
            /\ err' = NoErr
    /\ UNCHANGED <<side, connects, uploads, uploadDelays, dumps, uploadOnly, variant, args, conn,
                   stored, handles, imgs, call, ncalls, piped,
                   attempt, delays, stages, path, uploadTry, clean>>

-----------------------------------------------------------------------------
(* perform_backup_pipeline(): the finally block and tenacity's retry *)

Closed(h) == [open |-> FALSE, closes |-> h.closes + 1]

\* What releasing the handle can do.  pymysql raises on the close() of a
\* connection that is already closed; CONNECT RESET can end with rc >= 2.
CloseOutcomes ==
    CASE variant = "sql" -> IF handles[conn].open THEN {"closed"} ELSE {"raises"}
      [] variant = "db2" -> {"closed", "raises"}
      [] OTHER -> {"closed"}

PipelineFinally ==
    /\ pc = "p_finally"
    /\ IF conn = NoHandle
       THEN UNCHANGED <<conn, handles, err>>
       ELSE \E out \in CloseOutcomes :
              IF out = "closed"
              THEN /\ handles' = [handles EXCEPT ![conn] = Closed(@)]
                   /\ conn' = IF variant = "db2" THEN NoHandle ELSE conn
                   /\ UNCHANGED err
              ELSE /\ err' = Exc(IF variant = "db2" THEN "BackupError" ELSE "EngineError",
                                 "close")
                   /\ UNCHANGED <<conn, handles>>
    /\ IF err' = NoErr
       THEN /\ pc' = "done"
            /\ result' = Returned(path)
            /\ UNCHANGED <<stages, path, uploadTry, uploadDelays, uploadOnly>>
       ELSE /\ pc' = "retry"
            /\ stages' = <<>>
            /\ path' = NoPath
            /\ uploadTry' = 0
            /\ uploadDelays' = <<>>
            /\ uploadOnly' = (uploadOnly /\ err'.stage = "upload")
            /\ UNCHANGED result
    /\ UNCHANGED <<side, connects, uploads, dumps, variant, args, stored, fs, imgs, call, ncalls, piped,
                   attempt,
                   delays, clean>>

\* mutant of Stop: the budget is compared one attempt late
StopLate(n) == n > MaxAttempts

\* stop_after_attempt(3)
Stop(n) == n >= MaxAttempts

\* mutant of RetryIf: retry_if_not_exception_type(ValueError)
RetryIfNotValueError(e) == e.kind # "ValueError"

\* mutant of RetryIf: an attempt that failed in the upload stage is not retried
RetryIfNotUpload(e) == e.stage # "upload"

\* @retry is given no retry= argument: tenacity retries on every exception
RetryIf(e) == TRUE

\* tenacity after a failed attempt: the exception itself when it is not one to
\* retry on, RetryError wrapping the last attempt's exception once the budget
\* is used up, else sleep and call again
Retry ==
    /\ pc = "retry"
    /\ IF ~RetryIf(err)
       THEN /\ pc' = "done"
            /\ result' = Raised(err)
            /\ UNCHANGED <<attempt, delays>>
       ELSE IF Stop(attempt)
       THEN /\ pc' = "done"
            /\ result' = Raised([kind |-> "RetryError", stage |-> err.stage,
                                 inner |-> err.kind])
            /\ UNCHANGED <<attempt, delays>>
       ELSE /\ pc' = "connect"
            /\ attempt' = attempt + 1
            /\ delays' = Append(delays, Wait(attempt))
            /\ UNCHANGED result
    /\ err' = NoErr
    /\ UNCHANGED <<side, connects, uploads, uploadDelays, dumps, uploadOnly, variant, args, conn,
                   stored, handles, fs, imgs, call, ncalls, piped,
                   stages, path, uploadTry, clean>>

-----------------------------------------------------------------------------

Next ==
    \/ CallConnect
    \/ CallBackup
    \/ CallPipeline
    \/ Connect
    \/ BackupEntry
    \/ Dump
    \/ Validate
    \/ Compress
    \/ Encrypt
    \/ Upload
    \/ UploadTry
    \/ BackupFinally
    \/ PipelineFinally
    \/ Retry

Spec == Init /\ [][Next]_vars

-----------------------------------------------------------------------------
(* The cloud upload dispatcher: dispatch_cloud_upload and the managers'      *)
(* _upload_to_cloud, each called once on a descriptor                        *)

\* the provider tags the if/elif chain of the routing code knows:
\* dispatch_cloud_upload (which the document-store manager calls) has four
\* branches, the _upload_to_cloud of the other three managers has two
RoutedBy(who) ==
    IF who \in {"dispatch", "mongo"} THEN {"s3", "azure", "gcs", "minio"}
    ELSE {"s3", "azure"}

\* mutant of UploadOperation: the gcs and minio branches call each other's uploader
UploadOperationCrossed(provider) ==
    CASE provider = "s3" -> "upload_to_s3"
      [] provider = "azure" -> "upload_to_azure"
      [] provider = "gcs" -> "upload_to_minio"
      [] provider = "minio" -> "upload_to_gcs"

\* the uploader each branch calls
UploadOperation(provider) ==
    CASE provider = "s3" -> "upload_to_s3"
      [] provider = "azure" -> "upload_to_azure"
      [] provider = "gcs" -> "upload_to_gcs"
      [] provider = "minio" -> "upload_to_minio"

\* mutant of RequiredFields: the s3 branch no longer checks s3_expected_owner
RequiredFieldsNoOwner(provider) ==
    CASE provider = "s3" -> {"s3_bucket"}
      [] provider = "azure" -> {"azure_conn_str", "azure_container"}
      [] provider = "gcs" -> {"gcs_bucket"}
      [] provider = "minio" -> {"minio_endpoint", "minio_access_key",
                                "minio_secret_key", "minio_bucket"}

\* the fields each branch checks with "if not ...: raise ValueError" before it
\* calls the uploader
RequiredFields(provider) ==
    CASE provider = "s3" -> {"s3_bucket", "s3_expected_owner"}
      [] provider = "azure" -> {"azure_conn_str", "azure_container"}
      [] provider = "gcs" -> {"gcs_bucket"}
      [] provider = "minio" -> {"minio_endpoint", "minio_access_key",
                                "minio_secret_key", "minio_bucket"}

KwargSets == [cloud_provider : Tags, present : SUBSET Fields]

InitDispatch ==
    /\ MainIdle
    /\ ToolIdle
    /\ RaceIdle
    /\ MinioIdle
    /\ CryptoIdle
    /\ AsyncIdle
    /\ kwargs \in KwargSets
    /\ via \in {"dispatch"} \cup Variants
    /\ dpc = "route"
    /\ invoked = <<>>
    /\ dout = NoOutcome

\* provider = kwargs.get("cloud_provider", "").lower() and the if/elif chain up
\* to the call of the uploader
Route ==
    /\ dpc = "route"
    /\ LET provider == Lower(kwargs.cloud_provider)
       IN  IF provider \notin RoutedBy(via)
           THEN /\ dout' = DRaised(DExc("ValueError", "unsupported", provider))
                /\ dpc' = "done"
                /\ UNCHANGED invoked
           ELSE IF ~(RequiredFields(provider) \subseteq kwargs.present)
           THEN /\ dout' = DRaised(DExc("ValueError", "incomplete", provider))
                /\ dpc' = "done"
                /\ UNCHANGED invoked
           ELSE /\ invoked' = Append(invoked, UploadOperation(provider))
                /\ dpc' = "uploading"
                /\ UNCHANGED dout
    /\ UNCHANGED <<kwargs, via, mainVars, minioVars, cryptoVars, asyncVars, toolVars, raceVars>>

\* the uploader returns, or tenacity raises RetryError after its attempts
UploadRun ==
    /\ dpc = "uploading"
    /\ \E ok \in BOOLEAN :
         dout' = IF ok THEN DReturned
                 ELSE DRaised(DExc("RetryError", "upload", Lower(kwargs.cloud_provider)))
    /\ dpc' = "done"
    /\ UNCHANGED <<kwargs, via, invoked, mainVars, minioVars, cryptoVars, asyncVars, toolVars, raceVars>>

NextDispatch ==
    \/ Route
    \/ UploadRun

SpecDispatch == InitDispatch /\ [][NextDispatch]_vars

-----------------------------------------------------------------------------
(* The cryptographic helper: encrypt_file, then decrypt_file on its result   *)

\* A path is the sequence of the pieces of its string; ".enc" is the piece
\* the helper appends and searches for, wherever it stands.
Pieces == {"db", ".gz", ".enc"}

Paths == UNION { [1..n -> Pieces] : n \in 1..MaxPathLen }

Bytes == {"b1", "b2"}

Keys == {"k1", "k2"}

Plain(b) == [kind |-> "plain", bytes |-> b, key |-> "none"]

\* Fernet(key).encrypt(data)
FernetEncrypt(data, k) == [kind |-> "token", bytes |-> data.bytes, key |-> k]

\* mutant of FernetDecrypt: the token's signature is not checked against the key
FernetDecryptAnyKey(token, k) ==
    IF token.kind = "token"
    THEN [ok |-> TRUE, data |-> Plain(token.bytes)]
    ELSE [ok |-> FALSE, data |-> token]

\* mutant of FernetDecrypt: the token is decrypted without its signature
\* being checked, so that a token that was tampered with decrypts too
FernetDecryptUnauthenticated(token, k) ==
    IF token.kind \in {"token", "tampered"} /\ token.key = k
    THEN [ok |-> TRUE, data |-> Plain(token.bytes)]
    ELSE [ok |-> FALSE, data |-> token]

\* Fernet(key).decrypt(token): InvalidToken unless the token was made with the key
FernetDecrypt(token, k) ==
    IF token.kind = "token" /\ token.key = k
    THEN [ok |-> TRUE, data |-> Plain(token.bytes)]
    ELSE [ok |-> FALSE, data |-> token]

\* enc_path.replace(".enc", ""): every occurrence is removed
Replace(enc_path) == SelectSeq(enc_path, LAMBDA t : t # ".enc")

InitCrypto ==
    /\ MainIdle
    /\ ToolIdle
    /\ RaceIdle
    /\ MinioIdle
    /\ DispatchIdle
    /\ AsyncIdle
    /\ given \in [p : Paths, f : Bytes, ek : Keys, dk : Keys]
    /\ disk = [n \in {given.p} |-> Plain(given.f)]
    /\ cpc = "start"
    /\ encOut = CNone
    /\ decOut = CNone

\* encrypt_file(file_path, key)
EncryptFile ==
    /\ cpc = "start"
    /\ LET encrypt_file_path == Append(given.p, ".enc")
       IN  /\ disk' = Put(Remove(disk, {given.p}), encrypt_file_path,
                          FernetEncrypt(disk[given.p], given.ek))
           /\ encOut' = CReturned(encrypt_file_path)
    /\ cpc' = "encrypted"
    /\ UNCHANGED <<given, decOut, mainVars, minioVars, dispatchVars, asyncVars, toolVars, raceVars>>

\* Fernet(key): a key that is not 32 url-safe base64-encoded bytes is rejected
ValidKey(k) == k \in Keys

\* a token whose bytes were changed after it was made
Tampered(token) == [token EXCEPT !.kind = "tampered"]

\* decrypt_file(enc_path, key): every exception becomes ValueError.  The key
\* is parsed, the input is read and decrypted, and only then is the output
\* opened and written.
DecryptFile ==
    /\ cpc = "encrypted"
    /\ LET enc_path == encOut.path
           output == Replace(enc_path)
       IN  IF \/ ~ValidKey(given.dk)
              \/ enc_path \notin DOMAIN disk
              \/ ~FernetDecrypt(disk[enc_path], given.dk).ok
              \/ output = <<>>
           THEN /\ decOut' = CRaised("ValueError")
                /\ UNCHANGED disk
           ELSE /\ disk' = Put(disk, output, FernetDecrypt(disk[enc_path], given.dk).data)
                /\ decOut' = CReturned(output)
    /\ cpc' = "decrypted"
    /\ UNCHANGED <<given, encOut, mainVars, minioVars, dispatchVars, asyncVars, toolVars, raceVars>>

NextCrypto ==
    \/ EncryptFile
    \/ DecryptFile

SpecCrypto == InitCrypto /\ [][NextCrypto]_vars

\* decrypt_file called on what is found where an earlier encrypt_file left
\* its result: the token as it was written, a token that was tampered with,
\* or no readable file; a file may be at the output path already; the key
\* the caller passes may be no key at all
EncStates == {"intact", "tampered", "unreadable"}

DiskOf(g, state, prior) ==
    LET enc_path == Append(g.p, ".enc")
        output == Replace(enc_path)
        token == FernetEncrypt(Plain(g.f), g.ek)
        old == IF prior /\ output # <<>> THEN (output :> Plain("old")) ELSE <<>>
    IN  CASE state = "intact" -> old @@ (enc_path :> token)
          [] state = "tampered" -> old @@ (enc_path :> Tampered(token))
          [] OTHER -> old

InitDecrypt ==
    /\ MainIdle
    /\ ToolIdle
    /\ RaceIdle
    /\ MinioIdle
    /\ DispatchIdle
    /\ AsyncIdle
    /\ given \in [p : Paths, f : Bytes, ek : Keys, dk : Keys \cup {"bad"}]
    /\ \E state \in EncStates, prior \in BOOLEAN : disk = DiskOf(given, state, prior)
    /\ cpc = "encrypted"
    /\ encOut = CReturned(Append(given.p, ".enc"))
    /\ decOut = CNone

NextDecrypt == DecryptFile

SpecDecrypt == InitDecrypt /\ [][NextDecrypt]_vars

-----------------------------------------------------------------------------
(* The two entry points: perform_backup_pipeline called by keyword, and      *)
(* async_perform_backup_pipeline handing it to asyncio.to_thread             *)

ParamNames ==
    <<"host", "user", "password", "database_name", "file_path",
      "storage_account_link">>

ParamSets ==
    [host : {"", "h"}, user : {"", "u"}, password : {"", "pw"},
     database_name : {"", "db"}, file_path : {"", "dst"},
     storage_account_link : {"None", "link"}, kwargs : {"none", "cloud"}]

\* mutant of ToThreadArgs: file_path and storage_account_link change places
ToThreadArgsSwapped(w) ==
    <<w.host, w.user, w.password, w.database_name, w.storage_account_link,
      w.file_path>>

\* the positional arguments async_perform_backup_pipeline gives to_thread
ToThreadArgs(w) ==
    <<w.host, w.user, w.password, w.database_name, w.file_path,
      w.storage_account_link>>

\* Python binds positional arguments to the parameters in their order, and
\* the keyword arguments that name no parameter to **kwargs
Bind(positional, kw) ==
    [n \in {ParamNames[i] : i \in 1..Len(ParamNames)} \cup {"kwargs"} |->
        IF n = "kwargs" THEN kw
        ELSE positional[CHOOSE i \in 1..Len(ParamNames) : ParamNames[i] = n]]

InitAsync ==
    /\ MainIdle
    /\ ToolIdle
    /\ RaceIdle
    /\ MinioIdle
    /\ DispatchIdle
    /\ CryptoIdle
    /\ params \in ParamSets
    /\ apc = "idle"
    /\ bound = <<>>

\* manager.perform_backup_pipeline(host=..., ..., **kwargs): the decorated
\* method runs on the caller's thread
CallSync ==
    /\ apc = "idle"
    /\ bound' = [fn |-> "perform_backup_pipeline", retry |-> TRUE,
                 thread |-> "caller", p |-> params]
    /\ apc' = "called"
    /\ UNCHANGED <<params, mainVars, minioVars, dispatchVars, cryptoVars, toolVars, raceVars>>

\* await asyncio.to_thread(self.perform_backup_pipeline, host, user, password,
\* database_name, file_path, storage_account_link, **kwargs): the same
\* decorated method runs on a worker thread
CallAsync ==
    /\ apc = "idle"
    /\ bound' = [fn |-> "perform_backup_pipeline", retry |-> TRUE,
                 thread |-> "worker",
                 p |-> Bind(ToThreadArgs(params), params.kwargs)]
    /\ apc' = "called"
    /\ UNCHANGED <<params, mainVars, minioVars, dispatchVars, cryptoVars, toolVars, raceVars>>

NextAsync ==
    \/ CallSync
    \/ CallAsync

SpecAsync == InitAsync /\ [][NextAsync]_vars

-----------------------------------------------------------------------------
(* The operations that run engine tools, each called once on a manager: the  *)
(* enterprise variant's connect() and connection release, the dump tools,    *)
(* and validate() of the four variants.  The tools are installed; each       *)
(* answers with a return code.                                               *)

ExitCodes == 0..MaxExit

\* the parameters of connect()
FieldNames == {"host", "user", "password", "database_name"}

\* The states connect() and perform_backup_pipeline() leave a manager in.
\* client: self.connection / self.client is unset ("none"), set and usable
\* ("open"), or set and closed; the enterprise variant keeps a flag that its
\* pipeline resets, the others keep the closed object.  stored: self.host,
\* self.user, self.password and self.database are set; the document-store
\* variant assigns its client before server_info() can fail.
ManagerStates ==
    { m \in [variant : Variants, client : {"none", "open", "closed"}, stored : BOOLEAN] :
        /\ (m.client = "closed" => m.variant # "db2")
        /\ ((~m.stored /\ m.client # "none") => m.variant = "mongo")
        /\ ((m.stored /\ m.client = "none") => m.variant = "db2") }

\* the operations of a manager that run an engine tool
OpsOf(m) ==
    {"connect", "validate"}
      \cup (IF m.variant = "db2" /\ m.client = "open" THEN {"release"} ELSE {})
      \cup (IF m.variant # "sqlite" /\ m.stored /\ m.client # "none" THEN {"dump"} ELSE {})

\* the db2 command line processor, run by _db2()
Db2CLP == {"db2 CONNECT", "db2 BACKUP", "db2 CONNECT RESET"}

\* subprocess.run() without check=True and with no look at returncode
Unchecked == {"mysql DROP"}

\* the external programs; "PRAGMA integrity_check" and "dropDatabase" are
\* commands sent through the client library
ExternalTools ==
    Db2CLP \cup Unchecked \cup
    {"db2ckbkp", "mysqldump", "mysql CREATE", "mysql restore", "mongodump", "mongorestore"}

\* mutant of Db2Raises: the command line processor's rc = 1 is fatal too
Db2RaisesAnyNonzero(rc) == rc # 0

\* _db2(): "db2 returns rc=1 for warnings; only raise on rc >= 2"
Db2Raises(rc) == rc >= 2

\* subprocess.run(..., check=True) raises CalledProcessError on a nonzero
\* return code; validate() of the enterprise variant tests returncode != 0
CheckTrue(rc) == rc # 0

\* does the statement that runs the tool raise on this return code
Raises(tool, rc) ==
    IF tool \in Db2CLP THEN Db2Raises(rc)
    ELSE IF tool \in Unchecked THEN FALSE
    ELSE CheckTrue(rc)

Run(tool, rc) == [tool |-> tool, rc |-> rc, raised |-> Raises(tool, rc)]

\* a command sent through the client library: it returns or it raises
Command(name, ok) == [tool |-> name, rc |-> 0, raised |-> ~ok]

InitTool ==
    /\ MainIdle
    /\ RaceIdle
    /\ MinioIdle
    /\ DispatchIdle
    /\ CryptoIdle
    /\ AsyncIdle
    /\ man \in ManagerStates
    /\ op \in OpsOf(man)
    /\ cfields \in (IF op = "connect" THEN SUBSET FieldNames ELSE {FieldNames})
    /\ tfile \in (CASE op = "validate" -> {"missing", "empty", "data"}
                   [] op = "connect" /\ man.variant = "sqlite" -> {"missing", "data"}
                   [] OTHER -> {"missing"})
    /\ tpc = "entry"
    /\ ns = "absent"
    /\ runs = <<>>
    /\ tout = TNone

\* mutant of RequiredOf: the file-based variant checks all four arguments too
RequiredOfAllFour(v) == FieldNames

\* "if not all([host, user, password, database_name])", and for the
\* file-based variant "if not database_name"
RequiredOf(v) == IF v = "sqlite" THEN {"database_name"} ELSE FieldNames

\* the call that reaches the engine: pymysql.connect, MongoClient.server_info,
\* sqlite3.connect, or the db2 command line processor
ConnectVia(v) ==
    CASE v = "sql" -> "pymysql.connect"
      [] v = "mongo" -> "server_info"
      [] v = "sqlite" -> "sqlite3.connect"
      [] v = "db2" -> "db2 CONNECT"

\* what that call did: the return code of the command line processor, or a
\* client library call that returned or raised
ConnectRuns(v) ==
    IF v = "db2" THEN {Run("db2 CONNECT", rc) : rc \in ExitCodes}
    ELSE {Command(ConnectVia(v), ok) : ok \in BOOLEAN}

\* connect(host, user, password, database_name)
ToolConnect ==
    /\ tpc = "entry"
    /\ op = "connect"
    /\ IF ~(RequiredOf(man.variant) \subseteq cfields)
       THEN /\ tout' = TRaised("ValueError", "missing_fields")
            /\ UNCHANGED <<man, runs>>
       ELSE IF man.variant = "sqlite" /\ tfile = "missing"
       THEN /\ tout' = TRaised("BackupError", "file_not_found")
            /\ UNCHANGED <<man, runs>>
       ELSE \E c \in ConnectRuns(man.variant) :
              /\ runs' = Append(runs, c)
              /\ IF c.raised
                 THEN /\ tout' = TRaised("BackupError", "connect")
                      /\ man' = IF man.variant = "mongo"
                                THEN [man EXCEPT !.client = "open"] ELSE man
                 ELSE /\ tout' = TReturned
                      /\ man' = [man EXCEPT !.client = "open", !.stored = TRUE]
    /\ tpc' = "done"
    /\ UNCHANGED <<op, cfields, tfile, ns, mainVars, minioVars, dispatchVars, cryptoVars, asyncVars, raceVars>>

\* the finally block of IBMDB2DatabaseBackupManager.perform_backup_pipeline
ToolRelease ==
    /\ tpc = "entry"
    /\ op = "release"
    /\ \E rc \in ExitCodes :
         /\ runs' = Append(runs, Run("db2 CONNECT RESET", rc))
         /\ IF Raises("db2 CONNECT RESET", rc)
            THEN tout' = TRaised("BackupError", "release") /\ UNCHANGED man
            ELSE /\ tout' = TReturned
                 /\ man' = [man EXCEPT !.client = "none"]
    /\ tpc' = "done"
    /\ UNCHANGED <<op, cfields, tfile, ns, mainVars, minioVars, dispatchVars, cryptoVars, asyncVars, raceVars>>

DumpTool(v) ==
    CASE v = "sql" -> "mysqldump"
      [] v = "mongo" -> "mongodump"
      [] v = "db2" -> "db2 BACKUP"

\* _run_mysqldump, _run_mongodump, _run_db2_backup into an empty directory:
\* a BACKUP that ends with a warning may have written no image
ToolDump ==
    /\ tpc = "entry"
    /\ op = "dump"
    /\ \E rc \in ExitCodes :
         /\ runs' = Append(runs, Run(DumpTool(man.variant), rc))
         /\ IF Raises(DumpTool(man.variant), rc)
            THEN tout' = TRaised("BackupError", "dump")
            ELSE \E image \in (IF rc = 0 \/ man.variant # "db2" THEN {TRUE} ELSE BOOLEAN) :
                   tout' = IF image THEN TReturned ELSE TRaised("BackupError", "no_image")
    /\ tpc' = "done"
    /\ UNCHANGED <<man, op, cfields, tfile, ns, mainVars, minioVars, dispatchVars, cryptoVars, asyncVars, raceVars>>

\* validate(): "if not os.path.exists(file_path) or os.path.getsize(file_path) == 0"
ValidateEntry ==
    /\ tpc = "entry"
    /\ op = "validate"
    /\ IF tfile # "data"
       THEN tout' = TRaised("BackupError", "missing_or_empty") /\ tpc' = "done"
       ELSE /\ tpc' = CASE man.variant = "sql" -> "create"
                        [] man.variant = "mongo" -> "restore"
                        [] OTHER -> "check"
            /\ UNCHANGED tout
    /\ UNCHANGED <<man, op, cfields, tfile, ns, runs, mainVars, minioVars, dispatchVars, cryptoVars, asyncVars, raceVars>>

\* mutant of FinallyRuns: the drop is an ordinary last statement of the try block
FinallyRunsOnSuccess(out) == out.status = "ok"

\* try: ... finally: the finally block runs whatever the try block did
FinallyRuns(out) == TRUE

AfterTry(out) == IF FinallyRuns(out) THEN "drop" ELSE "done"

\* SQLDatabaseBackupManager.validate: mysql -e "CREATE DATABASE temp_db".  On a
\* manager that never connected self.host and self.password are None, and
\* subprocess.run raises TypeError before any program starts.
ValidateCreate ==
    /\ tpc = "create"
    /\ IF ~man.stored
       THEN /\ tout' = TRaised("TypeError", "create")
            /\ tpc' = AfterTry(tout')
            /\ UNCHANGED <<runs, ns>>
       ELSE \E rc \in ExitCodes :
              /\ runs' = Append(runs, Run("mysql CREATE", rc))
              /\ IF Raises("mysql CREATE", rc)
                 THEN /\ tout' = TRaised("BackupError", "create")
                      /\ tpc' = AfterTry(tout')
                      /\ UNCHANGED ns
                 ELSE /\ ns' = "present"
                      /\ tpc' = "restore"
                      /\ UNCHANGED tout
    /\ UNCHANGED <<man, op, cfields, tfile, mainVars, minioVars, dispatchVars, cryptoVars, asyncVars, raceVars>>

RestoreTool(v) == IF v = "sql" THEN "mysql restore" ELSE "mongorestore"

\* the restore into the throwaway namespace: mysql temp_db < file, or
\* mongorestore --nsTo=temp_db.*, which creates the namespace itself and may
\* have created it when it fails; with no credentials stored its URI names no
\* server and it can only fail
ValidateRestore ==
    /\ tpc = "restore"
    /\ \E rc \in (IF man.stored THEN ExitCodes ELSE ExitCodes \ {0}) :
         /\ runs' = Append(runs, Run(RestoreTool(man.variant), rc))
         /\ IF Raises(RestoreTool(man.variant), rc)
            THEN /\ tout' = TRaised("BackupError", "restore")
                 /\ ns' \in (IF man.variant = "mongo" /\ man.stored
                             THEN {"absent", "present"} ELSE {ns})
            ELSE /\ tout' = TReturned
                 /\ ns' = "present"
    /\ tpc' = AfterTry(tout')
    /\ UNCHANGED <<man, op, cfields, tfile, mainVars, minioVars, dispatchVars, cryptoVars, asyncVars, raceVars>>

\* the finally block of validate(): mysql -e "DROP DATABASE IF EXISTS temp_db"
\* with its return code not looked at, or, "if self.client",
\* self.client[temp_db].command("dropDatabase"), which can raise
ValidateDrop ==
    /\ tpc = "drop"
    /\ IF man.variant = "sql"
       THEN IF ~man.stored
            THEN /\ tout' = TRaised("TypeError", "drop")
                 /\ UNCHANGED <<runs, ns>>
            ELSE \E rc \in ExitCodes :
                   /\ runs' = Append(runs, Run("mysql DROP", rc))
                   /\ ns' = IF rc = 0 THEN "absent" ELSE ns
                   /\ UNCHANGED tout
       ELSE IF man.client = "none"
            THEN UNCHANGED <<runs, ns, tout>>
            ELSE \E ok \in BOOLEAN :
                   /\ runs' = Append(runs, Command("dropDatabase", ok))
                   /\ ns' = IF ok THEN "absent" ELSE ns
                   /\ tout' = IF ok THEN tout ELSE TRaised("EngineError", "drop")
    /\ tpc' = "done"
    /\ UNCHANGED <<man, op, cfields, tfile, mainVars, minioVars, dispatchVars, cryptoVars, asyncVars, raceVars>>

\* the integrity check of the file-based variant (PRAGMA integrity_check
\* through sqlite3: "ok", another answer, or sqlite3.Error) and of the
\* enterprise variant (db2ckbkp, "if result.returncode != 0")
ValidateCheck ==
    /\ tpc = "check"
    /\ IF man.variant = "sqlite"
       THEN \E ok \in BOOLEAN :
              /\ runs' = Append(runs, Command("PRAGMA integrity_check", ok))
              /\ tout' = IF ok THEN TReturned ELSE TRaised("BackupError", "check")
       ELSE \E rc \in ExitCodes :
              /\ runs' = Append(runs, Run("db2ckbkp", rc))
              /\ tout' = IF Raises("db2ckbkp", rc) THEN TRaised("BackupError", "check")
                         ELSE TReturned
    /\ tpc' = "done"
    /\ UNCHANGED <<man, op, cfields, tfile, ns, mainVars, minioVars, dispatchVars, cryptoVars, asyncVars, raceVars>>

NextTool ==
    \/ ToolConnect
    \/ ToolRelease
    \/ ToolDump
    \/ ValidateEntry
    \/ ValidateCreate
    \/ ValidateRestore
    \/ ValidateDrop
    \/ ValidateCheck

SpecTool == InitTool /\ [][NextTool]_vars

-----------------------------------------------------------------------------
(* Two concurrent backup() runs: two connected managers of one variant,      *)
(* each on a thread of its own, on one file system.  Every tool succeeds; a  *)
(* run fails only when the file it is about to read is not there.            *)

Dests == {"", "dstA", "dstB"}

\* mutant of ScratchDir: every run has a scratch location of its own
ScratchDirPerRun(r) == IF r = 1 THEN "tmp" ELSE "tmp2"

\* "./backup_temp.sql", _TEMP_BACKUP_PATH, _TEMP_BACKUP_DIR: a literal or a
\* class attribute, the same for every instance of the class
ScratchDir(r) == "tmp"

\* os.path.join(file_path, ...) if file_path else the scratch location
RunDir(r) == IF Truthy(rdest[r]) THEN rdest[r] ELSE ScratchDir(r)

\* the name the dump of run r gets: a fixed name, or for the enterprise
\* variant an image named by its timestamp (the later dump has the later one)
RunTarget(r) ==
    [dir |-> RunDir(r),
     img |-> IF rvariant # "db2" THEN 0
             ELSE IF \E o \in Runs \ {r} : rpc[o] # "dump" THEN 2 ELSE 1,
     sfx |-> <<>>]

\* the finally block of backup(): os.remove(scratch path) if it exists;
\* shutil.rmtree(scratch directory) for the enterprise variant
RunCleanup(f, r) ==
    IF rvariant = "db2" THEN Remove(f, DirFiles(f, ScratchDir(r)))
    ELSE Remove(f, {[dir |-> ScratchDir(r), img |-> 0, sfx |-> <<>>]})

InitRace ==
    /\ MainIdle
    /\ DispatchIdle
    /\ CryptoIdle
    /\ AsyncIdle
    /\ ToolIdle
    /\ MinioIdle
    /\ rvariant \in Variants
    /\ rdest \in [Runs -> Dests]
    /\ rpc = [r \in Runs |-> "dump"]
    /\ rpath = [r \in Runs |-> NoPath]
    /\ rfs = EmptyFS
    /\ rout = [r \in Runs |-> NoResult]

\* the dump tool writes its output file, replacing a file of that name
RunDump(r) ==
    /\ rpc[r] = "dump"
    /\ rfs' = Put(rfs, RunTarget(r), r)
    /\ rpath' = [rpath EXCEPT ![r] = IF rvariant = "db2" THEN DB2Pick(rfs', RunDir(r))
                                     ELSE RunTarget(r)]
    /\ rpc' = [rpc EXCEPT ![r] = "validate"]
    /\ UNCHANGED <<rvariant, rdest, rout, mainVars, minioVars, dispatchVars, cryptoVars, asyncVars,
                   toolVars>>

\* validate(): "Backup file missing or empty"
RunValidate(r) ==
    /\ rpc[r] = "validate"
    /\ IF rpath[r] \notin DOMAIN rfs
       THEN /\ rout' = [rout EXCEPT ![r] = Raised(Exc("BackupError", "validate"))]
            /\ rpc' = [rpc EXCEPT ![r] = "finally"]
       ELSE /\ rpc' = [rpc EXCEPT ![r] = "compress"]
            /\ UNCHANGED rout
    /\ UNCHANGED <<rvariant, rdest, rpath, rfs, mainVars, minioVars, dispatchVars, cryptoVars,
                   asyncVars, toolVars>>

\* compress(): FileNotFoundError, or write file_path + ".gz" and os.remove(file_path)
RunCompress(r) ==
    /\ rpc[r] = "compress"
    /\ IF rpath[r] \notin DOMAIN rfs
       THEN /\ rout' = [rout EXCEPT ![r] = Raised(Exc("FileNotFoundError", "compress"))]
            /\ UNCHANGED <<rfs, rpath>>
       ELSE /\ rfs' = Remove(Put(rfs, WithSuffix(rpath[r], "gz"), rfs[rpath[r]]), {rpath[r]})
            /\ rpath' = [rpath EXCEPT ![r] = WithSuffix(@, "gz")]
            /\ UNCHANGED rout
    /\ rpc' = [rpc EXCEPT ![r] = "finally"]
    /\ UNCHANGED <<rvariant, rdest, mainVars, minioVars, dispatchVars, cryptoVars, asyncVars, toolVars>>

\* the finally block of backup(), then "return True, compressed_path" or the
\* pending exception
RunFinally(r) ==
    /\ rpc[r] = "finally"
    /\ rfs' = RunCleanup(rfs, r)
    /\ rout' = [rout EXCEPT ![r] = IF @ = NoResult THEN Returned(rpath[r]) ELSE @]
    /\ rpc' = [rpc EXCEPT ![r] = "done"]
    /\ UNCHANGED <<rvariant, rdest, rpath, mainVars, minioVars, dispatchVars, cryptoVars, asyncVars,
                   toolVars>>

NextRace ==
    \E r \in Runs :
        \/ RunDump(r)
        \/ RunValidate(r)
        \/ RunCompress(r)
        \/ RunFinally(r)

SpecRace == InitRace /\ [][NextRace]_vars

-----------------------------------------------------------------------------
(* upload_to_minio, called once: the bucket is looked up, made when it is    *)
(* not there, and the object put; other clients of the store can make and    *)
(* remove the bucket at any time                                             *)

BucketStates == {"absent", "present"}

\* one client call as the log keeps it
Called(c, a) == [call |-> c, try |-> mtry, answer |-> a]

InitMinio ==
    /\ MainIdle
    /\ DispatchIdle
    /\ CryptoIdle
    /\ AsyncIdle
    /\ ToolIdle
    /\ RaceIdle
    /\ bucket \in BucketStates
    /\ mpc = "check"
    /\ mtry = 1
    /\ mseen = FALSE
    /\ mlog = <<>>
    /\ mout = NoOutcome

\* mutant of NeedsBucket: make_bucket is called whatever the lookup says
NeedsBucketAlways(exists) == TRUE

\* "if not client.bucket_exists(bucket):"
NeedsBucket(exists) == ~exists

\* client.bucket_exists(bucket): the store's answer, or an exception
MinioCheck ==
    /\ mpc = "check"
    /\ \E answered \in BOOLEAN :
         IF answered
         THEN /\ mlog' = Append(mlog, Called("bucket_exists",
                                             IF bucket = "present" THEN "True" ELSE "False"))
              /\ mpc' = IF NeedsBucket(bucket = "present") THEN "make" ELSE "put"
         ELSE /\ mlog' = Append(mlog, Called("bucket_exists", "raises"))
              /\ mpc' = "failed"
    /\ mseen' = (mseen \/ bucket = "present")
    /\ UNCHANGED <<bucket, mtry, mout, mainVars, dispatchVars, cryptoVars, asyncVars,
                   toolVars, raceVars>>

\* client.make_bucket(bucket): the store refuses a bucket that is there
MinioMake ==
    /\ mpc = "make"
    /\ \E answered \in BOOLEAN :
         IF answered /\ bucket = "absent"
         THEN /\ bucket' = "present"
              /\ mlog' = Append(mlog, Called("make_bucket", "ok"))
              /\ mpc' = "put"
         ELSE /\ mlog' = Append(mlog, Called("make_bucket", "raises"))
              /\ mpc' = "failed"
              /\ UNCHANGED bucket
    /\ mseen' = (mseen \/ bucket' = "present")
    /\ UNCHANGED <<mtry, mout, mainVars, dispatchVars, cryptoVars, asyncVars,
                   toolVars, raceVars>>

\* client.fput_object(bucket, object_name, file_path): the store refuses an
\* object for a bucket that is not there
MinioPut ==
    /\ mpc = "put"
    /\ \E answered \in BOOLEAN :
         IF answered /\ bucket = "present"
         THEN /\ mlog' = Append(mlog, Called("fput_object", "ok"))
              /\ mpc' = "done"
              /\ mout' = DReturned
         ELSE /\ mlog' = Append(mlog, Called("fput_object", "raises"))
              /\ mpc' = "failed"
              /\ UNCHANGED mout
    /\ UNCHANGED <<bucket, mtry, mseen, mainVars, dispatchVars, cryptoVars, asyncVars,
                   toolVars, raceVars>>

\* tenacity after a failed attempt of upload_to_minio: RetryError once the
\* three attempts are used up, else the function is called again
MinioRetry ==
    /\ mpc = "failed"
    /\ IF UploadStop(mtry)
       THEN /\ mpc' = "done"
            /\ mout' = DRaised(DExc("RetryError", "upload", "minio"))
            /\ UNCHANGED <<mtry, mseen>>
       ELSE /\ mpc' = "check"
            /\ mtry' = mtry + 1
            /\ mseen' = FALSE
            /\ UNCHANGED mout
    /\ UNCHANGED <<bucket, mlog, mainVars, dispatchVars, cryptoVars, asyncVars,
                   toolVars, raceVars>>

\* another client of the store makes the bucket or removes it
Meddle ==
    /\ mpc \in {"check", "make", "put", "failed"}
    /\ bucket' = IF bucket = "present" THEN "absent" ELSE "present"
    /\ mseen' = (mseen \/ bucket' = "present")
    /\ UNCHANGED <<mpc, mtry, mlog, mout, mainVars, dispatchVars, cryptoVars, asyncVars,
                   toolVars, raceVars>>

NextMinio ==
    \/ MinioCheck
    \/ MinioMake
    \/ MinioPut
    \/ MinioRetry
    \/ Meddle

SpecMinio == InitMinio /\ [][NextMinio]_vars

-----------------------------------------------------------------------------
(* Properties *)

IsPrefix(s, t) == Len(s) <= Len(t) /\ \A i \in 1..Len(s) : s[i] = t[i]

Ran(s) == {s[i] : i \in 1..Len(s)}

\* the exception a step has just raised: pending inside perform_backup_pipeline,
\* handed to the caller of a direct call
ErrorOut == IF call = "pipeline" THEN err ELSE result.err

PipelineDone == call = "pipeline" /\ pc = "done"

BackupDone == call = "backup" /\ pc = "done"

\* C1: after a perform_backup_pipeline run that started with no file on disk,
\* successful or not, no file other than the returned final artifact is left
\* in the scratch location or the destination directory.
C1_CleanupInvariant ==
    (PipelineDone /\ clean) =>
        DOMAIN fs \subseteq (IF result.status = "ok" THEN {result.path} ELSE {})

\* C2: at the end of every attempt of perform_backup_pipeline (success or
\* failure), every connection the attempts of this call have opened is closed.
C2_ConnectionReleased ==
    (call = "pipeline" /\ ncalls = 1 /\ pc \in {"retry", "done"}) =>
        \A h \in 1..Len(handles) : ~handles[h].open

\* the order the stages of one backup() call are to run in
ExpectedStages ==
    <<"dump", "validate", "compress">>
        \o (IF args.key THEN <<"encrypt">> ELSE <<>>)
        \o (IF args.provider # "" THEN <<"upload">> ELSE <<>>)

StagePcs == {"dump", "validate", "compress", "encrypt", "upload"}

\* C3: within one backup() the stages start in the order dump, validate,
\* compress, encrypt (only with a key), upload (only with a provider): the
\* stages started so far are a prefix of that order (none twice, none
\* skipped), and a stage is about to start only when every stage before it
\* has run and no exception is pending.
C3_StageOrder ==
    /\ IsPrefix(stages, ExpectedStages)
    /\ pc \in StagePcs => (err = NoErr /\ IsPrefix(Append(stages, pc), ExpectedStages))
    /\ pc = "upload_try" => (err = NoErr /\ stages = ExpectedStages)
    /\ (pc = "b_finally" /\ err = NoErr) => stages = ExpectedStages

C3_Witness ==
    /\ pc = "b_finally"
    /\ err = NoErr
    /\ stages = <<"dump", "validate", "compress", "encrypt", "upload">>

\* C4: perform_backup_pipeline makes at most 3 attempts; the attempt number
\* only ever grows by one, after a failed attempt, and the new attempt starts
\* at connect with nothing carried over from backup(); a successful attempt
\* ends the call with that attempt's result, and a finished call makes no
\* further attempt.
C4_BoundedRetry ==
    [][ /\ (call' = "pipeline" => attempt' \in 1..3)
        /\ (call' = call /\ attempt' # attempt) =>
              /\ pc = "retry" /\ err # NoErr
              /\ attempt' = attempt + 1
              /\ pc' = "connect" /\ stages' = <<>> /\ path' = NoPath /\ err' = NoErr
        /\ (pc = "p_finally" /\ err' = NoErr) =>
              (pc' = "done" /\ result' = Returned(path) /\ attempt' = attempt)
        /\ (pc = "p_finally" /\ pc' = "done") => err' = NoErr
        /\ (PipelineDone /\ call' = call) => UNCHANGED <<attempt, result>>
      ]_vars

C4_Witness ==
    /\ PipelineDone
    /\ result.status = "ok"
    /\ attempt = 3
    /\ delays = <<2, 4>>

\* C5 as claimed: an attempt that fails with InvalidArgument ends the call at
\* once, with no delay and no further attempt; every other error kind is
\* retried up to the attempt budget.
C5_InvalidArgumentNotRetried ==
    [][ pc = "retry" =>
          IF err.kind = "ValueError"
          THEN pc' = "done" /\ delays' = delays /\ attempt' = attempt
          ELSE attempt < 3 => (pc' = "connect" /\ attempt' = attempt + 1)
      ]_vars

\* C5 amended: the pipeline-level retry treats InvalidArgument like every
\* other error kind: a failed attempt, whatever its error kind, is followed by
\* one more backoff delay and a new attempt until the attempt budget of 3 is
\* used up, and only then does the call end.
C5_EveryKindRetried ==
    [][ pc = "retry" =>
          IF attempt < 3
          THEN /\ pc' = "connect"
               /\ attempt' = attempt + 1
               /\ Len(delays') = Len(delays) + 1
          ELSE pc' = "done" /\ result'.status = "error" /\ delays' = delays
      ]_vars

\* the second attempt has failed with the InvalidArgument of connect(), which
\* the first attempt met too (the fields are missing in every attempt)
C5_Witness ==
    /\ pc = "retry"
    /\ attempt = 2
    /\ ~args.fields
    /\ err = Exc("ValueError", "connect")
    /\ delays = <<2>>

\* C6: when the attempts are used up, the caller receives the exception of
\* the last attempt itself.
C6_LastErrorUnchanged ==
    [][ (pc = "retry" /\ pc' = "done") => result'.err = err ]_vars

\* C7: a stage failure inside backup() reaches the caller of backup() as a
\* BackupError of the stage that failed, and no later stage has run.
C7_StageFailureIsBackupError ==
    (BackupDone /\ result.status = "error" /\ stages # <<>>) =>
        /\ result.err.kind = "BackupError"
        /\ result.err.stage = stages[Len(stages)]
        /\ IsPrefix(stages, ExpectedStages)

\* C8 as claimed: in every manager state, backup() with neither a destination
\* directory nor a cloud provider raises InvalidArgument, starts no dump and
\* touches no file.
C8_AlwaysInvalidArgument ==
    [][ (pc = "b_entry" /\ args.file_path = "" /\ args.provider = "") =>
          /\ ErrorOut'.kind = "ValueError"
          /\ pc' # "dump" /\ stages' = <<>> /\ fs' = fs
      ]_vars

\* C8 amended: backup() with no destination directory, no cloud provider and
\* no storage_account_link on a manager whose connection field is set raises
\* InvalidArgument, starts no dump and touches no file; on a manager whose
\* connection field is unset the same call raises the not-connected error
\* instead, again with no dump and no file.
C8_InvalidArgumentWhenConnected ==
    [][ (pc = "b_entry" /\ args.file_path = "" /\ args.provider = "" /\ ~args.link) =>
          /\ ErrorOut' = IF conn # NoHandle THEN Exc("ValueError", "no_destination")
                         ELSE Exc("BackupError", "not_connected")
          /\ pc' # "dump" /\ stages' = <<>> /\ fs' = fs
      ]_vars

C8_Witness ==
    /\ BackupDone
    /\ conn # NoHandle
    /\ args.file_path = "" /\ args.provider = "" /\ ~args.link
    /\ result = Raised(Exc("ValueError", "no_destination"))
    /\ stages = <<>>
    /\ fs = EmptyFS

\* C9: when the unsupported provider tag is rejected, no dump, validate,
\* compress or encrypt stage has run, the manager is still connected and no
\* file has been created.
C9_UnsupportedProviderFailsFirst ==
    (pc = "b_finally" /\ args.provider = "ftp" /\ err = Exc("ValueError", "upload")) =>
        /\ Ran(stages) \cap {"dump", "validate", "compress", "encrypt"} = {}
        /\ conn # NoHandle
        /\ clean => fs = EmptyFS

\* C10: a successful perform_backup_pipeline that started with no file on disk
\* returns the last artifact of the chain (dump.gz, or dump.gz.enc with a key),
\* and that file is on disk and is the only file on disk.
C10_FinalArtifactOnDisk ==
    (PipelineDone /\ result.status = "ok" /\ clean) =>
        /\ result.path.sfx = (IF args.key THEN <<"gz", "enc">> ELSE <<"gz">>)
        /\ result.path.dir = BackupDir
        /\ DOMAIN fs = {result.path}

\* C11: one dispatch of an upload makes at most 3 attempts; a failed attempt
\* below the budget is followed, after the same backoff as the pipeline's
\* (2, then 4 time-units), by one more attempt of the same upload; the upload
\* ends at its first successful attempt, or with the failure of its third;
\* none of this moves the pipeline's own attempt number or delays, and every
\* dispatch, in whatever pipeline attempt, starts with a budget of its own.
C11_UploadOwnRetry ==
    [][ /\ uploadTry' \in 0..3
        /\ IsPrefix(uploadDelays', <<Wait(1), Wait(2)>>)
        /\ (pc = "upload" /\ pc' = "upload_try") =>
              (uploadTry' = 1 /\ uploadDelays' = <<>>)
        /\ pc = "upload_try" =>
              /\ attempt' = attempt /\ delays' = delays /\ stages' = stages
              /\ \/ /\ pc' = "upload_try"
                    /\ uploadTry < 3
                    /\ uploadTry' = uploadTry + 1
                    /\ uploadDelays' = Append(uploadDelays, Wait(uploadTry))
                    /\ err' = NoErr
                 \/ /\ pc' = "b_finally"
                    /\ err' = NoErr
                    /\ UNCHANGED <<uploadTry, uploadDelays>>
                 \/ /\ pc' = "b_finally"
                    /\ uploadTry = 3
                    /\ err'.kind = "RetryError" /\ err'.stage = "upload"
                    /\ UNCHANGED <<uploadTry, uploadDelays>>
      ]_vars

\* the upload of the second pipeline attempt has succeeded at its third attempt
C11_Witness ==
    /\ call = "pipeline"
    /\ attempt = 2
    /\ delays = <<2>>
    /\ pc = "b_finally"
    /\ err = NoErr
    /\ uploadTry = 3
    /\ uploadDelays = <<2, 4>>

\* C12 as claimed: in a perform_backup_pipeline call whose attempts fail, if
\* at all, only in the upload stage, the dump stage runs exactly once.
C12_DumpRunsOnce ==
    (call = "pipeline" /\ uploadOnly) => dumps <= 1

\* C12 amended: a failed upload attempt below the upload's own budget is
\* retried inside the upload stage, with no stage run again and no new
\* pipeline attempt; once the upload has failed for good (its 3 attempts used
\* up, or its descriptor rejected) the pipeline attempt fails, and while the
\* pipeline budget lasts the next attempt starts again at connect and dumps
\* again: in a call whose attempts failed only in the upload stage the dump
\* has run once per pipeline attempt, up to 3 times.
C12_RedumpAfterUploadGivesUp ==
    [][ /\ (pc = "upload_try" /\ pc' = "upload_try") =>
              (dumps' = dumps /\ attempt' = attempt /\ stages' = stages /\ fs' = fs)
        /\ (call = "pipeline" /\ pc = "retry" /\ err.stage = "upload" /\ attempt < 3) =>
              (pc' = "connect" /\ attempt' = attempt + 1)
        /\ (call' = "pipeline" /\ uploadOnly') =>
              /\ dumps' \in {attempt' - 1, attempt'}
              /\ dumps' <= 3
              /\ (pc' \in {"upload", "upload_try", "retry"} => dumps' = attempt')
      ]_vars

\* the first attempt's upload gave up, the second attempt dumped again and
\* its upload went through
C12_Witness ==
    /\ PipelineDone
    /\ result.status = "ok"
    /\ uploadOnly
    /\ attempt = 2
    /\ dumps = 2
    /\ stages[Len(stages)] = "upload"

\* what dispatch_cloud_upload is to do with a descriptor
Complete(kw) ==
    /\ Lower(kw.cloud_provider) \in {"s3", "azure", "gcs", "minio"}
    /\ RequiredFields(Lower(kw.cloud_provider)) \subseteq kw.present

Routed == dpc \in {"uploading", "done"}

\* C13: dispatch_cloud_upload on a complete descriptor whose tag (compared in
\* lower case) is s3, azure, gcs or minio invokes the uploader of that tag,
\* once, and no other; for a tag that is none of the four it invokes no
\* uploader and raises ValueError naming the tag.
C13_RoutesByTag ==
    (via = "dispatch" /\ Routed) =>
        LET provider == Lower(kwargs.cloud_provider)
        IN  /\ Complete(kwargs) =>
                  /\ invoked = << CASE provider = "s3" -> "upload_to_s3"
                                    [] provider = "azure" -> "upload_to_azure"
                                    [] provider = "gcs" -> "upload_to_gcs"
                                    [] provider = "minio" -> "upload_to_minio" >>
                  /\ dout.err.kind # "ValueError"
            /\ provider \notin {"s3", "azure", "gcs", "minio"} =>
                  /\ invoked = <<>>
                  /\ dout = DRaised(DExc("ValueError", "unsupported", provider))

\* a minio descriptor has been routed and its upload has returned
C13_Witness ==
    /\ via = "dispatch"
    /\ dpc = "done"
    /\ kwargs.cloud_provider = "minio"
    /\ invoked = <<"upload_to_minio">>
    /\ dout = DReturned

\* C14: dispatch_cloud_upload on a descriptor of one of the four providers
\* that misses a required field (s3: bucket, expected owner; azure:
\* connection string, container; gcs: bucket; minio: endpoint, access key,
\* secret key, bucket) raises ValueError and invokes no uploader.
C14_IncompleteDescriptorRejected ==
    (via = "dispatch" /\ Routed) =>
        LET provider == Lower(kwargs.cloud_provider)
            needs == CASE provider = "s3" -> {"s3_bucket", "s3_expected_owner"}
                       [] provider = "azure" -> {"azure_conn_str", "azure_container"}
                       [] provider = "gcs" -> {"gcs_bucket"}
                       [] provider = "minio" -> {"minio_endpoint", "minio_access_key",
                                                 "minio_secret_key", "minio_bucket"}
                       [] OTHER -> {}
        IN  (needs \ kwargs.present # {}) =>
                /\ invoked = <<>>
                /\ dpc = "done"
                /\ dout.status = "error"
                /\ dout.err.kind = "ValueError"

\* scenario D: an s3 descriptor with the bucket but without the expected owner
C14_Witness ==
    /\ via = "dispatch"
    /\ dpc = "done"
    /\ kwargs.cloud_provider = "s3"
    /\ "s3_bucket" \in kwargs.present
    /\ "s3_expected_owner" \notin kwargs.present
    /\ invoked = <<>>
    /\ dout.err.kind = "ValueError"

\* C15: whichever manager variant routes the descriptor, the uploader that
\* is invoked, or the rejection, is the one dispatch_cloud_upload gives for
\* the same descriptor.
C15_VariantsDelegateToDispatcher ==
    Routed =>
        IF Complete(kwargs)
        THEN invoked = <<UploadOperation(Lower(kwargs.cloud_provider))>>
        ELSE /\ invoked = <<>>
             /\ dout.status = "error"
             /\ dout.err.kind = "ValueError"

RoundTrip == cpc = "decrypted" /\ given.dk = given.ek

\* C16: decrypt_file(encrypt_file(p, k), k) returns exactly p and leaves at
\* p a file whose bytes are those of the original.
C16_RoundTrip ==
    RoundTrip =>
        /\ decOut = CReturned(given.p)
        /\ given.p \in DOMAIN disk
        /\ disk[given.p] = Plain(given.f)

\* C17: decrypt_file with a key other than the one the file was encrypted
\* with raises the helper's decryption error (ValueError), returns no path
\* and writes no content: the encrypted file is all there is on disk.
C17_WrongKeyFails ==
    (cpc = "decrypted" /\ given.dk # given.ek) =>
        /\ decOut = CRaised("ValueError")
        /\ DOMAIN disk = {encOut.path}
        /\ disk[encOut.path] = FernetEncrypt(Plain(given.f), given.ek)

C17_Witness ==
    /\ cpc = "decrypted"
    /\ given.ek = "k1"
    /\ given.dk = "k2"
    /\ given.p = <<"db", ".gz">>
    /\ decOut.status = "error"

\* C18: the path a successful decrypt_file returns is the encrypted path
\* without its last piece ".enc", and nothing else removed.
C18_OnlyTrailingSuffixStripped ==
    (cpc = "decrypted" /\ decOut.status = "ok") =>
        decOut.path = SubSeq(encOut.path, 1, Len(encOut.path) - 1)

\* C19: after a successful decrypt_file the encrypted file is gone.
C19_EncryptedFileRemoved ==
    (cpc = "decrypted" /\ decOut.status = "ok") => encOut.path \notin DOMAIN disk

\* C20: whichever entry point is called, the function that runs is the
\* retry-decorated perform_backup_pipeline with every parameter bound to the
\* value the caller gave for it; only the thread differs.
C20_AsyncSameCall ==
    apc = "called" =>
        /\ bound.fn = "perform_backup_pipeline"
        /\ bound.retry
        /\ bound.p = params
        /\ bound.thread = "worker" \/ bound.thread = "caller"

C20_Witness ==
    /\ apc = "called"
    /\ bound.thread = "worker"
    /\ bound.p.file_path = "dst"
    /\ bound.p.storage_account_link = "link"
    /\ bound.p.kwargs = "cloud"

-----------------------------------------------------------------------------
(* Claims C21..C30 *)

\* C21: every completion of backup() or perform_backup_pipeline is either the
\* value (True, path of the last stage's artifact), given only after every
\* stage of the chain has run without an exception, or an explicit error that names a kind
\* and carries no path; there is no third outcome, and a backup() whose
\* stages did not all pass (a validate() that did not pass among them)
\* reaches its finally block with an exception pending.
C21_NoSilentFailure ==
    /\ (pc = "done" /\ call \in {"backup", "pipeline"}) =>
          \/ /\ result.status = "ok"
             /\ result.err = NoErr
             /\ stages = ExpectedStages
             /\ result.path = path /\ path # NoPath
          \/ /\ result.status = "error"
             /\ result.err.kind # "none"
             /\ result.path = NoPath
    /\ (pc = "b_finally" /\ stages # ExpectedStages) => err # NoErr
    /\ (pc \in {"compress", "encrypt", "upload", "upload_try"}) =>
          (err = NoErr /\ "validate" \in Ran(stages))

\* backup() has ended with the error of a validate() that did not pass
C21_Witness ==
    /\ BackupDone
    /\ stages = <<"dump", "validate">>
    /\ result = Raised(Exc("BackupError", "validate"))

ValidateDone == op = "validate" /\ tpc = "done"

\* the positions in `runs` of the drops of the throwaway namespace
Drops == {i \in 1..Len(runs) : runs[i].tool \in {"mysql DROP", "dropDatabase"}}

\* C22: when validate() of the relational or the document-store variant ends,
\* by return or by exception, after it has got past the file check on a
\* manager that holds the engine's credentials (so that the throwaway
\* namespace may have been created), the drop of that namespace has been
\* executed, once, as the last thing validate() ran, whether the create and
\* the restore succeeded or failed; a namespace that is still there is one
\* whose drop was executed and failed; nothing is run after a drop.
C22_ThrowawayDropped ==
    (ValidateDone /\ man.variant \in {"sql", "mongo"}) =>
        /\ (tfile = "data" /\ man.stored) => Drops = {Len(runs)}
        /\ ns = "present" =>
              /\ Drops = {Len(runs)}
              /\ (runs[Len(runs)].raised \/ runs[Len(runs)].rc # 0)
        /\ Drops \subseteq {Len(runs)}

\* the restore into the throwaway database failed and the database was dropped
C22_Witness ==
    /\ ValidateDone
    /\ man.variant = "sql"
    /\ Len(runs) = 3
    /\ runs[1] = Run("mysql CREATE", 0)
    /\ runs[2].tool = "mysql restore" /\ runs[2].raised
    /\ runs[3] = Run("mysql DROP", 0)
    /\ ns = "absent"
    /\ tout = TRaised("BackupError", "restore")

\* run o has dumped and has not yet compressed, and its dump is on disk
InUse(o) ==
    /\ rpc[o] \in {"validate", "compress"}
    /\ rpath[o] \in DOMAIN rfs
    /\ rfs[rpath[o]] = o

\* the steps of backup() that write or remove a file at the scratch location
ScratchSteps ==
    IF rvariant = "db2" THEN {"finally"} ELSE {"dump", "compress", "finally"}

\* C23: with both runs on the default scratch path, every step of one run
\* that writes or removes a file there, taken while the other run still
\* needs its dump (it has dumped and has not yet compressed), overwrites that
\* dump (the dump step) or deletes it (the compress step, the finally
\* block); for the enterprise variant, whose images have names of their
\* own, the step that does so is the finally block's removal of the directory.
C23_DefaultScratchCollides ==
    [][ \A r \in Runs, o \in Runs :
          ( /\ r # o
            /\ rdest[r] = "" /\ rdest[o] = ""
            /\ InUse(o)
            /\ rpc[r] \in ScratchSteps
            /\ rpc'[r] # rpc[r] )
          => IF rpc[r] = "dump"
             THEN rpath[o] \in DOMAIN rfs' /\ rfs'[rpath[o]] = r
             ELSE rpath[o] \notin DOMAIN rfs'
      ]_vars

\* run 2 removed the dump of run 1 between run 1's validate and compress:
\* run 1 failed on the missing file while run 2 returned
C23_Witness ==
    /\ rdest = [r \in Runs |-> ""]
    /\ rpc = [r \in Runs |-> "done"]
    /\ rout[1] = Raised(Exc("FileNotFoundError", "compress"))
    /\ rout[2].status = "ok"

\* C24: backup() on a manager no connect() of which has ever succeeded raises
\* the not-connected error, starts no stage and touches no file, whatever
\* the variant.
C24_NotConnectedBeforeConnect ==
    [][ (call = "backup" /\ pc = "b_entry" /\ ~stored) =>
          /\ pc' = "done"
          /\ result' = Raised(Exc("BackupError", "not_connected"))
          /\ stages' = <<>>
          /\ fs' = fs
      ]_vars

\* the fields connect() is to insist on: all four, or for the file-based
\* variant the target alone
ClaimedRequired == IF man.variant = "sqlite" THEN {"database_name"} ELSE FieldNames

\* what one connect() call is to do, given the error kind of a missing field
ConnectContract(missing) ==
    (op = "connect" /\ tpc = "entry" /\ tpc' = "done") =>
        IF ~(ClaimedRequired \subseteq cfields)
        THEN tout'.status = "error" /\ tout'.kind = missing /\ runs' = runs /\ man' = man
        ELSE IF man.variant = "sqlite" /\ tfile = "missing"
        THEN tout'.status = "error" /\ tout'.kind = "BackupError" /\ runs' = runs
             /\ man' = man
        ELSE /\ Len(runs') = 1
             /\ IF runs'[1].raised
                THEN tout'.status = "error" /\ tout'.kind = "BackupError" /\ man'.stored = man.stored
                ELSE tout' = TReturned /\ man'.stored /\ man'.client = "open"

\* C25 as claimed: a missing required field makes connect() fail with the
\* connection error (the manager's BackupError), the engine not contacted;
\* the engine's refusal fails with the connection error; success stores the
\* target identity and leaves the manager connected.
C25_ConnectionErrorOnMissingField ==
    [][ ConnectContract("BackupError") ]_vars

\* C25 amended: a missing required field (any of host, user, password,
\* database_name; for the file-based variant database_name alone, the other
\* three being ignored) makes connect() fail with InvalidArgument
\* (ValueError), the engine not contacted and the manager unchanged; a
\* database file that does not exist (file-based variant) and the engine's
\* refusal fail with the connection error (BackupError); success stores the
\* target identity and leaves the manager connected.
C25_InvalidArgumentOnMissingField ==
    [][ ConnectContract("ValueError") ]_vars

\* connect() of the relational variant without a password
C25_Witness ==
    /\ op = "connect" /\ tpc = "done"
    /\ man.variant = "sql"
    /\ cfields = {"host", "user", "database_name"}
    /\ tout = TRaised("ValueError", "missing_fields")
    /\ runs = <<>>
    /\ ~man.stored

\* the handles that are open
Live == {h \in 1..Len(handles) : handles[h].open}

\* C26: throughout a perform_backup_pipeline call on a fresh manager at most
\* one handle is open, and when an attempt is about to call connect no
\* handle is open: the handle of the attempt before has been closed.
C26_AtMostOneLiveHandle ==
    (call = "pipeline" /\ ncalls = 1) =>
        /\ Cardinality(Live) <= 1
        /\ pc = "connect" => Live = {}

\* the files of the chain that ends in p: the raw dump, its .gz, its .gz.enc
Chain(p) ==
    {[p EXCEPT !.sfx = SubSeq(<<"gz", "enc">>, 1, n)] : n \in 0..2}

\* a transforming stage has put its output beside its input and removed the input
Transformed(s) ==
    /\ path' = WithSuffix(path, s)
    /\ path' \in DOMAIN fs'
    /\ path \notin DOMAIN fs'

\* C27: a compress or encrypt stage that succeeds leaves its output file
\* (input name + ".gz", + ".enc") on disk and its input file gone, and when
\* a backup() that started with no file on disk returns successfully exactly
\* one file of the chain, the returned one, is on disk.
C27_OneFileOfTheChain ==
    [][ /\ (pc = "compress" /\ err' = NoErr) => Transformed("gz")
        /\ (pc = "encrypt" /\ err' = NoErr) => Transformed("enc")
        /\ (call = "backup" /\ pc = "b_finally" /\ clean /\ result'.status = "ok") =>
              Chain(result'.path) \cap DOMAIN fs' = {result'.path}
      ]_vars

\* the schedule as the policy words it: 2 time-units after the first failed
\* attempt, twice the delay before after each further one, never more than 10
RECURSIVE Backoff(_)
Backoff(i) ==
    IF i <= 1 THEN 2
    ELSE IF 2 * Backoff(i - 1) > 10 THEN 10 ELSE 2 * Backoff(i - 1)

\* the sleeps `d` made by a retried call that is in its attempt number `n`
OnSchedule(d, n) ==
    /\ Len(d) = n - 1
    /\ \A i \in 1..Len(d) : d[i] = Backoff(i) /\ d[i] <= 10

\* C28: a retried call (perform_backup_pipeline, an upload) in its attempt n
\* has slept n - 1 times, 2 time-units after the first failed attempt and
\* twice the delay before after each further one, never more than 10: none
\* before the first attempt, none after the last; and the wait function
\* gives that schedule for longer runs of failures than the attempt budget
\* allows.
C28_ExponentialBackoff ==
    /\ call = "pipeline" => OnSchedule(delays, attempt)
    /\ uploadTry > 0 => OnSchedule(uploadDelays, uploadTry)
    /\ uploadTry = 0 => uploadDelays = <<>>
    /\ call # "pipeline" => delays = <<>>
    /\ \A n \in 1..BackoffSteps : Wait(n) = Backoff(n)

\* the upload of the third pipeline attempt has given up after its third
\* attempt: two sleeps each, none after the last attempt
C28_Witness ==
    /\ call = "pipeline"
    /\ pc = "b_finally"
    /\ err.kind = "RetryError"
    /\ attempt = 3
    /\ delays = <<2, 4>>
    /\ uploadTry = 3
    /\ uploadDelays = <<2, 4>>

\* the steps of validate() that examine the backup
CheckTools ==
    {"mysql CREATE", "mysql restore", "mongorestore", "PRAGMA integrity_check", "db2ckbkp"}

\* the engine-specific check has reported a failure
CheckFailed == \E i \in 1..Len(runs) : runs[i].tool \in CheckTools /\ runs[i].raised

\* C29: validate(path) on a manager that holds its credentials: a missing or
\* zero-length file is rejected with the validation error (BackupError) before
\* any engine tool has run and before any throwaway namespace exists; a
\* failure reported by the engine-specific check makes validate() fail; in
\* every other case validate() returns True.
C29_ValidateOutcomes ==
    (ValidateDone /\ man.stored) =>
        IF tfile # "data"
        THEN tout = TRaised("BackupError", "missing_or_empty") /\ runs = <<>> /\ ns = "absent"
        ELSE IF CheckFailed THEN tout.status = "error"
        ELSE tout = TReturned

\* the runs of external programs recorded so far
ToolRuns == {i \in 1..Len(runs) : runs[i].tool \in ExternalTools}

\* a raising run is fatal for the operation: it ends in an error
FatalWhenRaised ==
    (tpc = "done" /\ \E i \in ToolRuns : runs[i].raised) => tout.status = "error"

\* C30 (as claimed): the command line processor of the enterprise variant
\* fails on exit codes >= 2 only, and every other external tool invocation of
\* every variant fails the stage on any nonzero exit code.
C30_AnyNonzeroFatalElsewhere ==
    /\ \A i \in ToolRuns :
          IF runs[i].tool \in Db2CLP
          THEN runs[i].raised <=> runs[i].rc >= 2
          ELSE runs[i].raised <=> runs[i].rc # 0
    /\ FatalWhenRaised

\* C30 (amended): as above, except that the DROP of the throwaway database in
\* the relational validate() never looks at its exit code; a run of the
\* command line processor with exit code 1 is no failure of the step (a dump
\* can still fail afterwards for want of an image file).
C30_PerToolExitPolicy ==
    /\ \A i \in ToolRuns :
          IF runs[i].tool \in Db2CLP
          THEN runs[i].raised <=> runs[i].rc >= 2
          ELSE IF runs[i].tool = "mysql DROP"
          THEN ~runs[i].raised
          ELSE runs[i].raised <=> runs[i].rc # 0
    /\ FatalWhenRaised
    /\ (tpc = "done" /\ man.variant = "db2" /\ op \in {"connect", "dump", "release"}
          /\ runs # <<>> /\ \A i \in 1..Len(runs) : runs[i].rc <= 1)
          => \/ tout = TReturned
             \/ op = "dump" /\ tout = TRaised("BackupError", "no_image")

C30_Witness ==
    /\ tpc = "done" /\ man.variant = "db2" /\ op = "dump"
    /\ runs = <<Run("db2 BACKUP", 1)>>
    /\ ~runs[1].raised
    /\ tout = TReturned

-----------------------------------------------------------------------------
(* Claims C31..C39 *)

\* the calls of one attempt of upload_to_minio, in the order they were made
CallsOf(n) == SelectSeq(mlog, LAMBDA c : c.try = n)

\* the orders of calls one attempt can make, failed calls included
AttemptShapes ==
    { <<"bucket_exists">>,
      <<"bucket_exists", "fput_object">>,
      <<"bucket_exists", "make_bucket">>,
      <<"bucket_exists", "make_bucket", "fput_object">> }

\* C31: upload_to_minio looks the bucket up first, makes it if and only if the
\* lookup said it is absent, and only then puts the object: every put comes
\* after a state of the same attempt in which the bucket is there, and
\* make_bucket is never called after a lookup that answered True.
C31_BucketBeforePut ==
    /\ \A n \in 1..UploadAttempts :
          LET c == CallsOf(n)
          IN  /\ c # <<>> => [i \in 1..Len(c) |-> c[i].call] \in AttemptShapes
              /\ \A i \in 1..Len(c) :
                    /\ c[i].call = "make_bucket" => c[i - 1].answer = "False"
                    /\ (c[i].call = "bucket_exists" /\ c[i].answer = "False" /\ i < Len(c))
                          => c[i + 1].call = "make_bucket"
                    /\ c[i].call = "fput_object" =>
                          \/ c[i - 1] = [call |-> "bucket_exists", try |-> n, answer |-> "True"]
                          \/ c[i - 1] = [call |-> "make_bucket", try |-> n, answer |-> "ok"]
    /\ mpc = "put" => mseen
    /\ mpc = "make" => mlog[Len(mlog)].answer = "False"
    /\ (mlog # <<>> /\ mlog[Len(mlog)].call = "fput_object" /\ mpc # "check") => mseen

C31_Witness ==
    /\ mout = DReturned
    /\ mtry = 2
    /\ CallsOf(1) = << [call |-> "bucket_exists", try |-> 1, answer |-> "True"],
                       [call |-> "fput_object", try |-> 1, answer |-> "raises"] >>
    /\ CallsOf(2) = << [call |-> "bucket_exists", try |-> 2, answer |-> "False"],
                       [call |-> "make_bucket", try |-> 2, answer |-> "ok"],
                       [call |-> "fput_object", try |-> 2, answer |-> "ok"] >>

\* the finally block of perform_backup_pipeline is about to release self.connection
AboutToClose == pc = "p_finally" /\ conn # NoHandle

\* C32: no connection handle is closed more than once: the finally block of an
\* attempt of perform_backup_pipeline never calls close on a handle that an
\* earlier finally block has closed already, and no handle is closed twice.
C32_NoDoubleClose ==
    /\ AboutToClose => handles[conn].open
    /\ \A h \in DOMAIN handles : handles[h].closes <= 1

\* backup(): "if not self.connection" / "if not self.client" is taken
Disconnected == conn = NoHandle

\* C33: once perform_backup_pipeline has returned or raised the manager is
\* Disconnected, whatever the variant: a backup() that follows it with no new
\* connect fails with not-connected and runs no dump.
C33_DisconnectedAfterPipeline ==
    /\ (call = "pipeline" /\ pc = "done") => Disconnected
    /\ (call = "backup" /\ ncalls = 2 /\ piped /\ pc = "done") =>
          /\ result = Raised(Exc("BackupError", "not_connected"))
          /\ dumps = 0

\* this step is connect() raising, to its caller or into the pipeline's finally block
ConnectRaises ==
    /\ pc = "connect"
    /\ \/ pc' = "p_finally" /\ err'.stage = "connect"
       \/ pc' = "done" /\ result'.status = "error"

\* C34: a connect() that raises, for missing fields or because the engine
\* refuses, leaves the stored handle and the stored host, user, password and
\* database as they were, so a Disconnected manager stays Disconnected.
C34_FailedConnectChangesNothing ==
    [][ConnectRaises =>
          /\ conn' = conn
          /\ stored' = stored
          /\ handles' = handles
          /\ (Disconnected => Disconnected')]_vars

\* C35: a cleanup step that fails never replaces the outcome of the work it
\* cleans up after: the release of the connection in the finally block of
\* perform_backup_pipeline leaves the pending outcome of the attempt as it is
\* (no error after stages that all succeeded, the stage's error otherwise),
\* and validate() fails with nothing but the validation error of its check.
C35_CleanupNeverMasks ==
    [][/\ pc = "p_finally" => err' = err
       /\ (pc = "validate" /\ err' # NoErr) => err' = Exc("BackupError", "validate")]_vars

\* the upload stage has been given compressed_path and has not ended yet
Uploading == pc \in {"upload", "upload_try"}

\* the stages that come before the upload of one attempt
StagesBeforeUpload ==
    IF args.key THEN <<"dump", "validate", "compress", "encrypt">>
    ELSE <<"dump", "validate", "compress">>

\* C36: only the final artifact is ever uploaded: the file handed to the
\* upload is on disk, it was made in this attempt by a dump that passed
\* validation and was compressed, and it is the encrypted file when a key is
\* given; no stage has failed before the upload.
C36_OnlyFinalArtifactUploaded ==
    Uploading =>
        /\ err = NoErr
        /\ IsPrefix(StagesBeforeUpload, stages)
        /\ Len(stages) <= Len(StagesBeforeUpload) + 1
        /\ path \in DOMAIN fs /\ fs[path] = "data"
        /\ path.sfx # <<>>
        /\ path.sfx[Len(path.sfx)] = (IF args.key THEN "enc" ELSE "gz")
        /\ args.key => (Len(path.sfx) >= 2 /\ path.sfx[Len(path.sfx) - 1] = "gz")

C36_Witness ==
    /\ call = "pipeline" /\ attempt = 2
    /\ pc = "upload_try" /\ uploadTry = 2
    /\ args.key
    /\ stages = <<"dump", "validate", "compress", "encrypt", "upload">>
    /\ path.sfx = <<"gz", "enc">>

\* how far the running attempt of perform_backup_pipeline has come
PcRank ==
    CASE pc = "connect" -> 1
      [] pc = "b_entry" -> 2
      [] pc = "dump" -> 3
      [] pc = "validate" -> 4
      [] pc = "compress" -> 5
      [] pc = "encrypt" -> 6
      [] pc = "upload" -> 7
      [] pc = "upload_try" -> 8
      [] pc = "b_finally" -> 9
      [] pc = "p_finally" -> 10
      [] pc = "retry" -> 11
      [] OTHER -> 12

\* attempts, then statements of the attempt, then attempts of the upload
Progress == attempt * 100 + PcRank * (UploadAttempts + 2) + uploadTry

\* the fixed bounds of the two retry layers
RetryBounds ==
    call = "pipeline" =>
        /\ attempt <= MaxAttempts
        /\ connects <= attempt /\ connects <= MaxAttempts
        /\ dumps <= connects /\ dumps <= MaxAttempts
        /\ uploadTry <= UploadAttempts
        /\ uploads <= UploadAttempts * dumps
        /\ uploads <= UploadAttempts * MaxAttempts

\* C37: one perform_backup_pipeline call makes at most 3 connects, at most 3
\* dumps and at most 9 upload attempts (at most 3 in one attempt of the
\* pipeline), and it ends after at most 3 attempts whatever the collaborators
\* answer: every step of the call moves it forward and it cannot move forward
\* beyond the end of the third attempt.
C37_RetryLayersCompose ==
    /\ []RetryBounds
    /\ [][(call = "pipeline" /\ pc # "done") =>
             /\ call' = "pipeline"
             /\ Progress' > Progress
             /\ Progress' <= MaxAttempts * 100 + 12 * (UploadAttempts + 2) + UploadAttempts]_vars

C37_Witness ==
    /\ call = "pipeline" /\ pc = "done"
    /\ attempt = 3 /\ connects = 3 /\ dumps = 3 /\ uploads = 9
    /\ result.status = "error" /\ result.err.kind = "RetryError"

\* decrypt_file is called with an invalid key, on an input it cannot read, or
\* on a token that the key does not authenticate (a wrong key, a token that
\* was tampered with)
DecryptionFails ==
    /\ cpc = "encrypted"
    /\ \/ ~ValidKey(given.dk)
       \/ encOut.path \notin DOMAIN disk
       \/ disk[encOut.path].kind # "token"
       \/ disk[encOut.path].key # given.dk

\* C38: a decrypt_file that fails because of the key, the token or the input
\* raises and leaves the file system as it was: no file is created or
\* overwritten at the output path and the encrypted input is intact.
C38_FailedDecryptChangesNothing ==
    [][DecryptionFails =>
          /\ decOut' = CRaised("ValueError")
          /\ disk' = disk]_vars

C38_Witness ==
    /\ cpc = "decrypted"
    /\ decOut = CRaised("ValueError")
    /\ given.dk = given.ek
    /\ given.p = <<"db", ".gz">>
    /\ disk = (<<"db", ".gz">> :> Plain("old")) @@
              (<<"db", ".gz", ".enc">> :> Tampered(FernetEncrypt(Plain(given.f), given.ek)))

\* the files that are not the same before and after the step
Touched == {n \in DOMAIN rfs \cup DOMAIN rfs' :
              ~(n \in DOMAIN rfs /\ n \in DOMAIN rfs' /\ rfs'[n] = rfs[n])}

\* C39: a backup() that is given a destination directory creates, overwrites
\* and deletes files in that directory only: no step of it touches a file at
\* the default scratch path or in the directory of another run, so it never
\* removes the intermediate file of a concurrent run that works elsewhere.
C39_DestinationFrame ==
    [][ \A r \in Runs :
          (Truthy(rdest[r]) /\ rpc'[r] # rpc[r]) =>
              /\ \A n \in Touched : n.dir = rdest[r]
              /\ \A o \in Runs \ {r} : (rdest[o] # rdest[r] /\ InUse(o)) => InUse(o)'
      ]_vars

====
